---- MODULE Spec2Model ----
(***************************************************************************)
(* A model of GiftStick's acquisition-and-upload pipeline:                 *)
(*   - the artifacts of auto_forensicate/recipes (base.py, disk.py,        *)
(*     directory.py) and their OpenStream/CloseStream protocol,            *)
(*   - the uploaders of auto_forensicate/uploader.py,                      *)
(*   - the driver AutoForensicate of auto_forensicate/auto_acquire.py.     *)
(*                                                                         *)
(* Exceptions are modelled by the name of their class ("none" when the     *)
(* call returns normally).  Python 3 makes IOError an alias of OSError, so *)
(* both are written "IOError".                                             *)
(***************************************************************************)
EXTENDS Integers, Sequences, FiniteSets, TLC

VARIABLES
  art,          \* artifact protocol: the artifact under test
  last,         \* artifact protocol: the last call made on it and its outcome
  files,        \* names of the files that exist in the working directory
  options,      \* the parsed command line (argparse.Namespace)
  platform,     \* sys.platform
  uploader,     \* AutoForensicate._uploader (the uploader object's fields)
  dest,         \* the destination: object name -> number of chunks stored
  log,          \* history: the calls made so far and what the last one did
  pc,           \* position of Main
  recipe_idx,   \* index in options.acquire of the recipe being run
  artifacts,    \* the list returned by GetArtifacts of the current recipe
  art_idx,      \* number of artifacts of that list already handled
  errors,       \* AutoForensicate._errors
  cwd,          \* the process working directory
  recipe,       \* the recipe object being run (BaseRecipe's fields)
  dirs,         \* the temporary directories that exist
  message,      \* the coloured status line printed by Main
  exit_status,  \* the exit status of the process
  faults        \* number of environment failures injected so far

vars == <<art, last, files, options, platform, uploader, dest, log, pc,
          recipe_idx, artifacts, art_idx, errors, cwd, recipe, dirs,
          message, exit_status, faults>>

driverVars == <<options, platform, uploader, dest, log, pc, recipe_idx,
                artifacts, art_idx, errors, cwd, recipe, dirs, message,
                exit_status, faults>>

\* ---------------------------------------------------------------- bounds
MaxChunks == 2      \* longest stream, in chunks of the uploader's buffer
MaxDisks == 1       \* most disks selected by the disk recipe
MaxDirs == 1        \* most directories selected by the directory recipe
MaxFaults == 1      \* most environment failures injected in one run
MaxSlices == 2      \* largest slice count configured for a splitter
MaxRecipes == 2     \* most recipes requested in one run

\* Exit codes of a child process: killed by a signal, success, failure.
ExitCodes == {-1, 0, 1}

\* ------------------------------------------------------------- artifacts
ArtifactKinds == {"String", "File", "ProcessOutput", "Directory", "Disk"}

\* BaseArtifact.__init__ and the constructors of its subclasses.
\* stream is BaseArtifact._stream: "None", or a stream object that is
\* "open" or "closed".  proc is DiskArtifact._ddprocess or
\* DirectoryArtifact._copyprocess: "None", "running", "terminated" (signal
\* sent, not waited for) or "exited" (waited for); DirectoryArtifact.__init__
\* never assigns _copyprocess, so the attribute is missing ("NoAttr") until
\* _GetStream sets it; the other kinds have no such attribute ("NA").
NewArtifact(kind, role, disk, dcfldd, size) ==
  [kind |-> kind, role |-> role, disk |-> disk, use_dcfldd |-> dcfldd,
   size |-> size, stream |-> "None",
   proc |-> CASE kind = "Disk" -> "None"
              [] kind = "Directory" -> "NoAttr"
              [] OTHER -> "NA",
   started |-> 0, len |-> 0, pos |-> 0, code |-> 0]

\* The name of the hash log dcfldd writes for disk d (hashlog_filename).
HashlogFile(d) == <<"hash", d>>

\* What one call needs from the environment:
\*   openFails  the open() or Popen() of _GetStream raises
\*   len        the number of chunks the opened stream will deliver
\*   code       the exit code of the child process
EnvSet == [openFails : BOOLEAN, len : 0..MaxChunks, code : ExitCodes]

\* A _GetStream that buffers the output without setting _size.
ProcessOutputGetStream_NoSize(a, fs, e) ==
  IF e.openFails
  THEN [a |-> a, stream |-> "None", exc |-> "IOError", files |-> fs]
  ELSE IF e.code = 0
  THEN [a |-> [a EXCEPT !.len = e.len, !.started = @ + 1],
        stream |-> "open", exc |-> "none", files |-> fs]
  ELSE [a |-> [a EXCEPT !.started = @ + 1],
        stream |-> "None", exc |-> "TypeError", files |-> fs]

\* ProcessOutputArtifact._GetStream and _RunCommand: the command writes
\* e.len chunks to stdout and exits with e.code.  With exit code 0 the
\* output is buffered and _size is its length; with any other code the
\* formatting of the error text raises TypeError ('{0:s}' is given the
\* command list and '{1:s}' bytes), after the command ran.
ProcessOutputGetStream(a, fs, e) ==
  IF e.openFails
  THEN [a |-> a, stream |-> "None", exc |-> "IOError", files |-> fs]
  ELSE IF e.code = 0
  THEN [a |-> [a EXCEPT !.len = e.len, !.size = e.len, !.started = @ + 1],
        stream |-> "open", exc |-> "none", files |-> fs]
  ELSE [a |-> [a EXCEPT !.started = @ + 1],
        stream |-> "None", exc |-> "TypeError", files |-> fs]

\* The subclass's _GetStream.  Returns the artifact, the exception raised,
\* the stream state and the files created by the child process.
\* dcfldd opens its hashlog file for writing when it starts.
GetStream(a, fs, e) ==
  CASE a.kind = "String" ->
         [a |-> [a EXCEPT !.stream = "open", !.len = a.size],
          stream |-> "open", exc |-> "none", files |-> fs]
    [] a.kind = "File" ->
         IF HashlogFile(a.disk) \in fs /\ ~e.openFails
         THEN [a |-> [a EXCEPT !.len = e.len],
               stream |-> "open", exc |-> "none", files |-> fs]
         ELSE [a |-> a, stream |-> "None", exc |-> "IOError", files |-> fs]
    [] a.kind = "ProcessOutput" -> ProcessOutputGetStream(a, fs, e)
    [] a.kind = "Directory" ->
         IF e.openFails
         THEN [a |-> a, stream |-> "None", exc |-> "IOError", files |-> fs]
         ELSE [a |-> [a EXCEPT !.proc = "running", !.len = e.len,
                               !.pos = 0, !.started = @ + 1],
               stream |-> "open", exc |-> "none", files |-> fs]
    [] a.kind = "Disk" ->
         IF a.use_dcfldd
         THEN IF a.proc # "None"
              THEN [a |-> a, stream |-> "None", exc |-> "IOError",
                    files |-> fs]
              ELSE IF e.openFails
              THEN [a |-> a, stream |-> "None", exc |-> "RecipeException",
                    files |-> fs]
              ELSE [a |-> [a EXCEPT !.proc = "running", !.len = a.size,
                                    !.started = @ + 1],
                    stream |-> "open", exc |-> "none",
                    files |-> fs \cup {HashlogFile(a.disk)}]
         ELSE IF e.openFails
              THEN [a |-> a, stream |-> "None", exc |-> "IOError",
                    files |-> fs]
              ELSE [a |-> [a EXCEPT !.len = a.size],
                    stream |-> "open", exc |-> "none", files |-> fs]

\* BaseArtifact.OpenStream: _GetStream is called only while _stream is
\* falsy; a stream object, open or closed, is returned as it is.
OpenStream(a, fs, e) ==
  IF a.stream = "None"
  THEN LET g == GetStream(a, fs, e)
       IN  [a |-> [g.a EXCEPT !.stream = g.stream], exc |-> g.exc,
            files |-> g.files]
  ELSE [a |-> a, exc |-> "none", files |-> fs]

\* A close protocol that waits for the child whatever is left to read.
CloseProcess_WaitFirst(a, e, early, isError) ==
  LET code == IF a.proc = "exited" THEN a.code ELSE e.code
  IN  [a |-> [a EXCEPT !.proc = "exited", !.code = code],
       exc |-> IF isError[code] THEN early ELSE "none"]

\* The close protocol shared by DiskArtifact.CloseStream and
\* DirectoryArtifact.CloseStream: probe one byte with stdout.read(1); if
\* there is one (it is consumed), terminate the child and raise, otherwise
\* wait and look at the exit code.
CloseProcess(a, e, early, isError) ==
  IF a.pos < a.len
  THEN [a |-> [a EXCEPT !.proc = "terminated", !.pos = @ + 1], exc |-> early]
  ELSE LET code == IF a.proc = "exited" THEN a.code ELSE e.code
       IN  [a |-> [a EXCEPT !.proc = "exited", !.code = code],
            exc |-> IF isError[code] THEN early ELSE "none"]

\* DiskArtifact.CloseStream raises when code > 0.
DiskCodeIsError == [c \in ExitCodes |-> c > 0]

\* DirectoryArtifact.CloseStream raises when code < 0.
DirectoryCodeIsError == [c \in ExitCodes |-> c < 0]

\* CloseStream of BaseArtifact, StringArtifact, DirectoryArtifact and
\* DiskArtifact.
CloseStream(a, e) ==
  CASE a.kind \in {"String", "File", "ProcessOutput"} ->
         IF a.stream = "None"
         THEN [a |-> a, exc |-> "IOError"]
         ELSE [a |-> [a EXCEPT !.stream = "closed"], exc |-> "none"]
    [] a.kind = "Directory" ->
         IF a.proc = "NoAttr"
         THEN [a |-> a, exc |-> "AttributeError"]
         ELSE CloseProcess(a, e, "CalledProcessError", DirectoryCodeIsError)
    [] a.kind = "Disk" ->
         IF a.proc = "None"
         THEN [a |-> a, exc |-> "IOError"]
         ELSE CloseProcess(a, e, "RecipeException", DiskCodeIsError)

\* -------------------------------------------------------------- uploaders
UploaderKinds ==
  {"LocalCopier", "LocalSplitterCopier", "GCSUploader", "GCSSplitterUploader"}

IsGCS(u) == u.kind \in {"GCSUploader", "GCSSplitterUploader"}

IsSplitter(u) == u.kind \in {"LocalSplitterCopier", "GCSSplitterUploader"}

\* BaseUploader.__init__ and the constructors of its subclasses.
NewUploader(kind, slices) ==
  [kind |-> kind, stamp_uploaded |-> FALSE, slices |-> slices,
   skip_exist |-> FALSE]

\* mmap.PAGESIZE, in chunks of the uploader's buffer (a 16 KiB page).
PAGESIZE == 1

\* Names of the objects at the destination (_MakeRemotePath): every name
\* is rooted at the stamp's start_time/identifier.
StampPath == <<"stamp.json", 0>>

RemotePath(a) == <<a.role, a.disk>>

SlicePath(a, slice_num) == <<a.role, a.disk, slice_num>>

Store(d, name, n) == (name :> n) @@ d

\* An except clause that makes a RetryableError of whatever is raised.
GCSTranslate_All(exc) == "RetryableError"

\* The except clause of GCSUploader._UploadStream and of
\* GCSSplitterUploader.UploadArtifact: GSDataError becomes RetryableError,
\* every other exception propagates.
GCSTranslate(exc) == IF exc = "GSDataError" THEN "RetryableError" ELSE exc

\* The exception an uploader raises for a failure of its transport.
TransportExc(u, kind) == IF IsGCS(u) THEN GCSTranslate(kind) ELSE kind

\* The transport failures the environment can inject into uploader u.
TransportKinds(u) ==
  IF IsGCS(u) THEN {"GSDataError", "GSResponseError"} ELSE {"IOError"}

\* A copy loop that reports (bytes so far, bytes in all) as boto does.
ChunkCallbacks_Cumulative(u, k) ==
  IF IsGCS(u) THEN <<>> ELSE [i \in 1..k |-> <<i, k>>]

\* The calls the copy loop of LocalCopier._UploadStream makes on
\* update_callback for k chunks: (len(buf), copied) after each chunk, in
\* chunks.  GCSUploader._UploadStream hands the callback to boto; the calls
\* that library makes are not modelled.
ChunkCallbacks(u, k) ==
  IF IsGCS(u) THEN <<>> ELSE [i \in 1..k |-> <<1, i>>]

\* LocalCopier._UploadStream and GCSUploader._UploadStream: copy the n
\* chunks left in the stream to the object `name`.  failAt = -1: the
\* transport works; failAt = 0: opening the destination raises; failAt = k:
\* storing the k-th chunk raises, after it was read from the stream.
\* Returns the destination, the number of chunks read, the exception, the
\* calls made on update_callback if one is given, and the exception the
\* transport raised inside ("none" if it worked).
UploadStream(u, d, name, n, failAt, kind) ==
  IF failAt = 0
  THEN [dest |-> d, read |-> 0, exc |-> TransportExc(u, kind), cbs |-> <<>>,
        raised |-> kind]
  ELSE IF failAt > 0 /\ failAt <= n
  THEN [dest |-> Store(d, name, failAt - 1), read |-> failAt,
        exc |-> TransportExc(u, kind), cbs |-> ChunkCallbacks(u, failAt - 1),
        raised |-> kind]
  ELSE [dest |-> Store(d, name, n), read |-> n, exc |-> "none",
        cbs |-> ChunkCallbacks(u, n), raised |-> "none"]

\* BaseUploader._UploadStamp: the stamp is a stream of one chunk; the flag
\* is set only after _UploadStream returned.
UploadStamp(u, d, failAt, kind) ==
  LET r == UploadStream(u, d, StampPath, 1, failAt, kind)
  IN  [u |-> [u EXCEPT !.stamp_uploaded = (r.exc = "none")],
       dest |-> r.dest, exc |-> r.exc, raised |-> r.raised]

\* What one UploadArtifact call gets from the environment: the failure of
\* the stamp upload (stampFail, -1 for none), of the artifact transfer
\* (failAt, -1 for none), their kind, and what the artifact's calls need.
Env(sf, fa, k, of, l, c) ==
  [stampFail |-> sf, failAt |-> fa, kind |-> k, openFails |-> of, len |-> l,
   code |-> c]

\* The environments that make a difference to the upload of artifact a by
\* uploader u, a choice the call never looks at being left at its default:
\* the stamp upload fails, or the artifact's open fails, or the transfer
\* fails, or nothing fails and the child process exits with some code.
\* lens are the lengths of the streams whose length the environment chooses.
UploadEnv(u, a, lens) ==
  LET kinds == TransportKinds(u)
      k0 == CHOOSE k \in kinds : TRUE
      sized == a.kind \in {"String", "Disk"}
      ls == IF sized THEN {0} ELSE lens
      codes == IF a.kind \in {"String", "File"} THEN {0} ELSE ExitCodes
  IN  {Env(sf, -1, k, FALSE, 0, 0) :
         sf \in (IF u.stamp_uploaded THEN {} ELSE 0..1), k \in kinds}
        \cup (IF a.kind = "String" \/ a.stream # "None" THEN {}
              ELSE {Env(-1, -1, k0, TRUE, 0, 0)})
        \cup UNION {{Env(-1, fa, k, FALSE, l, 0) :
                       fa \in 0..(IF sized THEN a.size ELSE l), k \in kinds} :
                    l \in ls}
        \cup {Env(-1, -1, k0, FALSE, l, c) : l \in ls, c \in codes}

ArtEnv(e) == [openFails |-> e.openFails, len |-> e.len, code |-> e.code]

\* The result of an UploadArtifact call: the objects' new states, the
\* exception raised, what the call did with the stamp, the calls it made
\* on update_callback, and the exception its transport raised, if any.
UploadResult(u, a, fs, d, exc, stamp) ==
  [u |-> u, a |-> a, files |-> fs, dest |-> d, exc |-> exc, stamp |-> stamp,
   cbs |-> <<>>, raised |-> "none"]

\* The result r of a call that made the calls cbs on its callback (none
\* when no callback was given).
Called(r, cb, cbs) == [r EXCEPT !.cbs = IF cb THEN cbs ELSE <<>>]

\* The result r of a call whose transport raised `raised`.
Failed(r, raised) == [r EXCEPT !.raised = raised]

\* The part of UploadArtifact after the stamp, for an artifact that is not
\* split: open the stream, copy it, close it.
CopyArtifact(u, a, fs, d, e, cb, stamp) ==
  LET o == OpenStream(a, fs, ArtEnv(e))
  IN  IF o.exc # "none"
      THEN UploadResult(u, o.a, o.files, d, o.exc, stamp)
      ELSE
        LET t == UploadStream(u, d, RemotePath(a), o.a.len - o.a.pos,
                              e.failAt, e.kind)
            a2 == [o.a EXCEPT !.pos = @ + t.read]
        IN  IF t.exc # "none"
            THEN Failed(Called(UploadResult(u, a2, o.files, t.dest, t.exc,
                                            stamp),
                               cb, t.cbs),
                        t.raised)
            ELSE LET c == CloseStream(a2, ArtEnv(e))
                 IN  Called(UploadResult(u, c.a, o.files, t.dest, c.exc,
                                         stamp),
                            cb, t.cbs)

\* The stamp prologue of every UploadArtifact: upload the stamp unless the
\* flag says it was uploaded.  The call goes on only if exc is "none".
StampPrologue(u, d, e) ==
  IF u.stamp_uploaded
  THEN [u |-> u, dest |-> d, exc |-> "none", stamp |-> "skipped",
        raised |-> "none"]
  ELSE LET s == UploadStamp(u, d, e.stampFail, e.kind)
       IN  [u |-> s.u, dest |-> s.dest, exc |-> s.exc,
            stamp |-> IF s.exc = "none" THEN "ok" ELSE "failed",
            raised |-> s.raised]

\* A BaseUploader.UploadArtifact that opens the artifact's stream before it
\* uploads the stamp.
BaseUploadArtifact_OpenFirst(u, a, fs, d, e, cb) ==
  LET o == OpenStream(a, fs, ArtEnv(e))
      p == StampPrologue(u, d, e)
  IN  IF o.exc # "none"
      THEN UploadResult(u, o.a, o.files, d, o.exc, "skipped")
      ELSE IF p.exc # "none"
      THEN Failed(UploadResult(p.u, o.a, o.files, p.dest, p.exc, p.stamp),
                  p.raised)
      ELSE CopyArtifact(p.u, o.a, o.files, p.dest, e, cb, p.stamp)

\* BaseUploader.UploadArtifact, inherited by LocalCopier and GCSUploader.
BaseUploadArtifact(u, a, fs, d, e, cb) ==
  LET p == StampPrologue(u, d, e)
  IN  IF p.exc # "none"
      THEN Failed(UploadResult(p.u, a, fs, p.dest, p.exc, p.stamp),
                  p.raised)
      ELSE CopyArtifact(p.u, a, fs, p.dest, e, cb, p.stamp)

\* The slice loop of LocalSplitterCopier.UploadArtifact and of
\* GCSSplitterUploader.UploadArtifact, from slice slice_num on.  mmap of
\* the stream's file descriptor raises when the descriptor is dcfldd's
\* pipe; it does not move the stream's position.  The local variant tests
\* for an existing slice before the mmap, the GCS variant after it.  The
\* local variant gives the callback to _UploadStream, the GCS variant does
\* not; both call update_callback(total_uploaded, artifact.size) after each
\* slice they uploaded.  cbs are the calls made on the callback so far,
\* raised is the exception the transport raised, if any.
RECURSIVE SliceLoop(_, _, _, _, _, _, _, _, _, _)
SliceLoop(u, a, d, slice_size, slice_num, total, failAt, kind, cb, cbs) ==
  LET seek_position == slice_num * slice_size
      remote_path == SlicePath(a, slice_num)
      current_slice_size ==
        IF seek_position + slice_size > a.size
        THEN a.size - seek_position ELSE slice_size
      skip == u.skip_exist /\ remote_path \in DOMAIN d
      t == UploadStream(u, d, remote_path, current_slice_size, failAt, kind)
      chunk_cbs == IF cb THEN cbs \o t.cbs ELSE cbs
  IN  IF seek_position >= a.size
      THEN [dest |-> d, exc |-> "none", cbs |-> cbs, raised |-> "none"]
      ELSE IF skip /\ ~IsGCS(u)
      THEN SliceLoop(u, a, d, slice_size, slice_num + 1, total, failAt,
                     kind, cb, cbs)
      ELSE IF a.proc # "None"
      THEN [dest |-> d, exc |-> "IOError", cbs |-> cbs, raised |-> "none"]
      ELSE IF skip
      THEN SliceLoop(u, a, d, slice_size, slice_num + 1, total, failAt,
                     kind, cb, cbs)
      ELSE IF t.exc # "none"
      THEN [dest |-> t.dest, exc |-> t.exc, cbs |-> chunk_cbs,
            raised |-> t.raised]
      ELSE IF ~cb
      THEN [dest |-> t.dest, exc |-> "TypeError", cbs |-> cbs,
            raised |-> "none"]
      ELSE SliceLoop(u, a, t.dest, slice_size, slice_num + 1,
                     total + current_slice_size,
                     IF failAt > current_slice_size
                     THEN failAt - current_slice_size ELSE -1,
                     kind, cb,
                     Append(chunk_cbs, <<total + current_slice_size, a.size>>))

\* The DiskArtifact branch of the two splitters' UploadArtifact.
SplitArtifact(u, a, fs, d, e, cb, stamp) ==
  IF u.slices < 1
  THEN UploadResult(u, a, fs, d, "BadConfigOption", stamp)
  ELSE
    LET number_of_pages == (a.size \div u.slices) \div PAGESIZE
        slice_size == number_of_pages * PAGESIZE
        o == OpenStream(a, fs, ArtEnv(e))
    IN  IF o.exc # "none"
        THEN UploadResult(u, o.a, o.files, d, o.exc, stamp)
        ELSE IF slice_size = 0
        THEN UploadResult(u, o.a, o.files, d, "ValueError", stamp)
        ELSE
          LET l == SliceLoop(u, o.a, d, slice_size, 0, 0, e.failAt, e.kind,
                             cb, <<>>)
          IN  IF l.exc # "none"
              THEN Failed(Called(UploadResult(u, o.a, o.files, l.dest,
                                              l.exc, stamp),
                                 cb, l.cbs),
                          l.raised)
              ELSE LET c == CloseStream(o.a, ArtEnv(e))
                   IN  Called(UploadResult(u, c.a, o.files, l.dest, c.exc,
                                           stamp),
                              cb, l.cbs)

\* LocalSplitterCopier.UploadArtifact and GCSSplitterUploader.UploadArtifact.
SplitterUploadArtifact(u, a, fs, d, e, cb) ==
  LET p == StampPrologue(u, d, e)
  IN  IF p.exc # "none"
      THEN Failed(UploadResult(p.u, a, fs, p.dest, p.exc, p.stamp),
                  p.raised)
      ELSE IF a.kind # "Disk"
      THEN CopyArtifact(p.u, a, fs, p.dest, e, cb, p.stamp)
      ELSE SplitArtifact(p.u, a, fs, p.dest, e, cb, p.stamp)

\* uploader.UploadArtifact(artifact, update_callback), by the uploader's
\* class.  cb tells whether a callback is given.
UploadArtifact(u, a, fs, d, e, cb) ==
  IF IsSplitter(u)
  THEN SplitterUploadArtifact(u, a, fs, d, e, cb)
  ELSE BaseUploadArtifact(u, a, fs, d, e, cb)

\* ------------------------------------------------- the artifact protocol
\* A caller holding one artifact and calling OpenStream, read and
\* CloseStream on it in any order, as the uploaders and the tests do.
MaxCalls == 4       \* most calls made on the artifact under test
MaxUploads == 2     \* most UploadArtifact calls made on the uploader under test

ArtifactVariants ==
  {NewArtifact(k, "test", 0, FALSE, 0) :
     k \in {"File", "ProcessOutput", "Directory"}}
    \cup {NewArtifact("String", "test", 0, FALSE, n) : n \in 0..MaxChunks}
    \cup {NewArtifact("Disk", "test", 0, d, n) :
             d \in BOOLEAN, n \in 1..MaxChunks}

\* The record of the last call made on an artifact and its outcome: the
\* method, the exception raised, what it returned (the state of the stream
\* object returned, "None" when nothing was returned), whether it started a
\* child process, and counters over all the calls made so far: OpenStream
\* calls, calls, stream objects made by _GetStream, CloseStream calls, and
\* whether a CloseStream call has completed.  For the calls made on other
\* objects: what the environment gave the call (arg), the call's arguments
\* (args) and, for the disk recipe, what _ListDisks returned (listed).
NoCall ==
  [call |-> "new", exc |-> "none", ret |-> "None", spawned |-> FALSE,
   opens |-> 0, calls |-> 0, made |-> 0, closes |-> 0, closed |-> FALSE,
   arg |-> "None", args |-> <<>>, listed |-> <<>>]

NoArtifact == NewArtifact("String", "none", 0, FALSE, 0)

\* Directories: the directory the process was started in, and no directory.
OriginDir == 0

NoDir == -1

NoRecipe == [name |-> "none", workdir |-> NoDir, origin_dir |-> NoDir]

\* The history of a run: the number of UploadArtifact calls, of stamp
\* uploads tried and done, the call that did it, the number of artifact
\* streams the uploader opened, of uploads that raised and of exceptions
\* that left a recipe, the recipes started, the artifacts of the current
\* recipe given to the uploader, and what the last UploadArtifact call did.
NoLog ==
  [calls |-> 0, stamp_tries |-> 0, stamp_ok |-> 0, stamp_call |-> 0,
   opens |-> 0, failed |-> 0, raised |-> 0,
   recipes |-> <<>>, attempted |-> <<>>,
   up |-> [exc |-> "none", stamp |-> "skipped", opened |-> FALSE,
           cbs |-> <<>>, raised |-> "none"]]

\* The history after UploadArtifact was called on artifact a with result r.
LogUpload(l, a, r) ==
  LET opened == r.a.stream # a.stream \/ r.a.started # a.started
  IN  [l EXCEPT
         !.calls = @ + 1,
         !.stamp_tries = IF r.stamp = "skipped" THEN @ ELSE @ + 1,
         !.stamp_ok = IF r.stamp = "ok" THEN @ + 1 ELSE @,
         !.stamp_call = IF r.stamp = "ok" THEN l.calls + 1 ELSE @,
         !.opens = IF opened THEN @ + 1 ELSE @,
         !.failed = IF r.exc # "none" THEN @ + 1 ELSE @,
         !.attempted = Append(@, RemotePath(a)),
         !.up = [exc |-> r.exc, stamp |-> r.stamp, opened |-> opened,
                 cbs |-> r.cbs, raised |-> r.raised]]

\* The driver's variables while no acquisition is running.
DriverIdle ==
  /\ options = [acquire |-> <<>>, disable_dcfldd |-> FALSE]
  /\ platform = "linux"
  /\ uploader = NewUploader("LocalCopier", 1)
  /\ dest = <<>>
  /\ log = NoLog
  /\ pc = "idle"
  /\ recipe_idx = 0
  /\ artifacts = <<>>
  /\ art_idx = 0
  /\ errors = <<>>
  /\ cwd = OriginDir
  /\ recipe = NoRecipe
  /\ dirs = {}
  /\ message = "none"
  /\ exit_status = 0
  /\ faults = 0

InitArtifact ==
  /\ art \in ArtifactVariants
  /\ files \in {{}, {HashlogFile(0)}}
  /\ last = NoCall
  /\ DriverIdle

CallOpenStream ==
  /\ last.calls < MaxCalls
  /\ \E e \in EnvSet :
       LET r == OpenStream(art, files, e)
       IN  /\ art' = r.a
           /\ files' = r.files
           /\ last' = [last EXCEPT
                         !.call = "OpenStream", !.exc = r.exc,
                         !.ret = IF r.exc = "none" THEN r.a.stream ELSE "None",
                         !.spawned = r.a.started # art.started,
                         !.opens = @ + 1, !.calls = @ + 1,
                         !.made = IF art.stream = "None" /\ r.a.stream # "None"
                                  THEN @ + 1 ELSE @]
  /\ UNCHANGED driverVars

\* stream.read(buffer_length) on the stream OpenStream returned.
CallRead ==
  /\ last.calls < MaxCalls
  /\ art.stream = "open"
  /\ art' = [art EXCEPT !.pos = IF @ < art.len THEN @ + 1 ELSE @]
  /\ last' = [last EXCEPT !.call = "read", !.exc = "none", !.ret = "None",
                          !.spawned = FALSE, !.calls = @ + 1]
  /\ UNCHANGED <<files, driverVars>>

CallCloseStream ==
  /\ last.calls < MaxCalls
  /\ \E e \in EnvSet :
       LET r == CloseStream(art, e)
       IN  /\ art' = r.a
           /\ last' = [last EXCEPT
                         !.call = "CloseStream", !.exc = r.exc,
                         !.ret = "None", !.spawned = FALSE,
                         !.calls = @ + 1, !.closes = @ + 1,
                         !.closed = @ \/ r.exc = "none"]
  /\ UNCHANGED <<files, driverVars>>

NextArtifact == CallOpenStream \/ CallRead \/ CallCloseStream

SpecArtifact == InitArtifact /\ [][NextArtifact]_vars

\* An artifact on which nothing was opened and no process was started.
Unopened(a) == a.stream = "None" /\ a.proc \in {"None", "NoAttr", "NA"}

\* C10: for every artifact variant, CloseStream when OpenStream has never
\* been called fails with IOError and leaves the artifact unopened.
C10_CloseBeforeOpenIsIOError ==
  (last.call = "CloseStream" /\ last.opens = 0)
    => (last.exc = "IOError" /\ Unopened(art))

\* C11: for any number of OpenStream calls on one artifact before any
\* CloseStream, every call that returns returns the one stream object made
\* by the first, and the external process is started at most once.
C11_OpenStreamIdempotent ==
  last.closes = 0 => (last.made <= 1 /\ art.started <= 1)

\* C12: OpenStream on an artifact whose CloseStream has completed fails with
\* IOError: it returns no stream and starts no process.
C12_OpenAfterCloseFails ==
  (last.call = "OpenStream" /\ last.closed)
    => (last.exc = "IOError" /\ last.ret = "None" /\ ~last.spawned)

\* An artifact that streams the output of a child process.
Streaming(a) == a.kind = "Directory" \/ (a.kind = "Disk" /\ a.use_dcfldd)

\* C13: CloseStream on a disk image or directory archive whose stream was
\* read to its end raises if and only if the exit code of the child process
\* is not 0, whatever its sign.
C13_NonZeroExitIsFatal ==
  (last.call = "CloseStream" /\ Streaming(art) /\ art.proc = "exited")
    => (last.exc # "none" <=> art.code # 0)

\* C14: CloseStream on a disk image or directory archive while the pipe of
\* its child still holds unread data raises and terminates the child; it
\* neither waits for the child nor returns normally.
C14_EarlyCloseTerminates ==
  [][(/\ last'.closes = last.closes + 1
      /\ Streaming(art)
      /\ art.proc \in {"running", "terminated"}
      /\ art.pos < art.len)
       => (/\ last'.exc \in {"RecipeException", "CalledProcessError"}
           /\ art'.proc = "terminated")]_vars

\* A disk image closed after one of its chunks was read and before the
\* last one was.
C14_Witness ==
  /\ last.call = "CloseStream"
  /\ art.kind = "Disk"
  /\ art.proc = "terminated"
  /\ last.exc = "RecipeException"
  /\ art.pos = 2
  /\ last.opens = 1

\* ---------------------------------------------------------------- recipes
RecipeNames == {"directory", "disk", "firmware", "sysinfo"}

\* The order of sorted(): alphabetical.
RecipeRank(n) ==
  CASE n = "directory" -> 1 [] n = "disk" -> 2 [] n = "firmware" -> 3
    [] n = "sysinfo" -> 4

\* sorted(list(set(options.acquire))) in _ParseRecipes.
RECURSIVE Sorted(_)
Sorted(S) ==
  IF S = {} THEN <<>>
  ELSE LET m == CHOOSE x \in S : \A y \in S : RecipeRank(x) <= RecipeRank(y)
       IN  <<m>> \o Sorted(S \ {m})

GetResult(exc, arts) == [exc |-> exc, artifacts |-> arts]

\* DiskRecipe.GetArtifacts for the selected disks, given by their sizes:
\* the inventory, then for each disk its property dump (Linux only), its
\* image and, with dcfldd, its hash log.
RECURSIVE DiskGroups(_, _, _, _)
DiskGroups(plat, use_dcfldd, sizes, d) ==
  IF d > Len(sizes) THEN <<>>
  ELSE (IF plat = "darwin" THEN <<>>
        ELSE <<NewArtifact("String", "udevadm", d, FALSE, 1)>>)
       \o <<NewArtifact("Disk", "image", d, use_dcfldd, sizes[d])>>
       \o (IF use_dcfldd
           THEN <<NewArtifact("File", "hashlog", d, FALSE, 0)>>
           ELSE <<>>)
       \o DiskGroups(plat, use_dcfldd, sizes, d + 1)

DiskGetArtifacts(plat, opts, sizes) ==
  GetResult("none",
            <<NewArtifact("String", "inventory", 0, FALSE, 1)>>
              \o DiskGroups(plat, ~opts.disable_dcfldd, sizes, 1))

\* ChipsecRecipe.GetArtifacts: ProcessOutputArtifact.__init__ takes no
\* ignore_failure argument, so the call raises TypeError.
FirmwareGetArtifacts(plat) ==
  IF plat = "darwin" THEN GetResult("none", <<>>)
  ELSE GetResult("TypeError", <<>>)

\* SysinfoRecipe.GetArtifacts.
SysinfoGetArtifacts(plat) ==
  GetResult("none",
            <<NewArtifact("ProcessOutput", "system_info", 0, FALSE, 0),
              NewArtifact("ProcessOutput", "interfaces", 0, FALSE, 0)>>)

\* DirectoryRecipe.GetArtifacts for n selected directories: a timeline and
\* an archive for each.
RECURSIVE DirectoryGroups(_, _)
DirectoryGroups(n, i) ==
  IF i > n THEN <<>>
  ELSE <<NewArtifact("ProcessOutput", "timeline", i, FALSE, 0),
         NewArtifact("Directory", "archive", i, FALSE, 1)>>
       \o DirectoryGroups(n, i + 1)

DirectoryGetArtifacts(plat, n) ==
  IF plat \in {"darwin", "linux"}
  THEN GetResult("none", DirectoryGroups(n, 1))
  ELSE GetResult("ValueError", <<>>)

\* The lists of disk sizes _ListDisks can return: largest first.
DiskSizeLists ==
  UNION {{sz \in [1..n -> 1..MaxChunks] :
            \A i \in 1..n, j \in 1..n : i < j => sz[i] >= sz[j]} :
         n \in 0..MaxDisks}

\* recipe.GetArtifacts() by the recipe's class; what the recipe finds on
\* the machine (disks, directories) is the environment's choice.
GetArtifactsResults(name, plat, opts) ==
  CASE name = "disk" ->
         {DiskGetArtifacts(plat, opts, sz) : sz \in DiskSizeLists}
    [] name = "firmware" -> {FirmwareGetArtifacts(plat)}
    [] name = "sysinfo" -> {SysinfoGetArtifacts(plat)}
    [] name = "directory" ->
         {DirectoryGetArtifacts(plat, n) : n \in 1..MaxDirs}

\* BaseRecipe.__enter__: make a temporary directory and move into it.
Enter(r, tmp) == [r EXCEPT !.workdir = tmp]

\* BaseRecipe.__exit__: the directory to go back to (os.chdir).
ExitCwd(r) == r.origin_dir

\* An __exit__ that leaves the working directory behind.
ExitDirs_NoRmtree(r, ds) == ds

\* BaseRecipe.__exit__: the directories left after shutil.rmtree.
ExitDirs(r, ds) == ds \ {r.workdir}

\* ------------------------------------------------------------- the driver
\* isinstance(e, errors.RetryableError).
IsRetryableError(exc) == exc = "RetryableError"

\* A classification that looks at the last error only.
Classify_LastError(errs) ==
  IF errs # <<>>
  THEN IF IsRetryableError(errs[Len(errs)]) THEN "rerun" ELSE "escalate"
  ELSE "success"

\* The end of Main: the status line chosen from the accumulated errors.
Classify(errs) ==
  IF errs # <<>>
  THEN IF \E i \in 1..Len(errs) : IsRetryableError(errs[i])
       THEN "rerun" ELSE "escalate"
  ELSE "success"

\* The status with which the interpreter exits after app.Main() returned:
\* Main returns None whatever the errors, and nothing calls sys.exit.
ExitStatus(errs) == 0

\* An except clause that catches the uploader's RetryableError only.
UploadCatches_RetryableOnly(exc) == exc = "RetryableError"

\* `except Exception` of _UploadArtifact: the exceptions it catches.
UploadCatches(exc) == TRUE

\* An except clause that catches the recipes' RecipeException only.
MainCatches_RecipeExceptionOnly(exc) == exc = "RecipeException"

\* `except Exception` of Main: the exceptions it catches.
MainCatches(exc) == TRUE

\* _MakeUploader: a GCSUploader for a gs:// destination, a LocalCopier for
\* an absolute path.
MakeUploader(destination) ==
  IF destination = "gs://" THEN NewUploader("GCSUploader", 10)
  ELSE NewUploader("LocalCopier", 10)

\* The recipe sets --acquire can name.
AcquireSets ==
  {S \in SUBSET RecipeNames : S # {} /\ Cardinality(S) <= MaxRecipes}

\* Main after ParseArguments and _MakeUploader: the options are parsed,
\* the uploader exists and nothing was acquired yet.
Init ==
  /\ art = NoArtifact
  /\ last = NoCall
  /\ files = {}
  /\ options \in [acquire : {Sorted(S) : S \in AcquireSets},
                  disable_dcfldd : BOOLEAN]
  /\ platform \in {"linux", "darwin"}
  /\ uploader \in {MakeUploader(d) : d \in {"gs://", "/"}}
  /\ dest = <<>>
  /\ log = NoLog
  /\ pc = "loop"
  /\ recipe_idx = 1
  /\ artifacts = <<>>
  /\ art_idx = 0
  /\ errors = <<>>
  /\ cwd = OriginDir
  /\ recipe = NoRecipe
  /\ dirs = {}
  /\ message = "none"
  /\ exit_status = 0
  /\ faults = 0

\* An exception exc leaves the `with recipe` block of Do: __exit__ runs,
\* then the except clause of Main's loop gets the exception.
LeaveRecipe(exc) ==
  /\ cwd' = ExitCwd(recipe)
  /\ dirs' = ExitDirs(recipe, dirs)
  /\ files' = {}
  /\ recipe' = NoRecipe
  /\ artifacts' = <<>>
  /\ art_idx' = 0
  /\ IF MainCatches(exc)
     THEN /\ errors' = Append(errors, exc)
          /\ recipe_idx' = recipe_idx + 1
          /\ pc' = "loop"
          /\ exit_status' = exit_status
     ELSE /\ errors' = errors
          /\ recipe_idx' = recipe_idx
          /\ pc' = "raised"
          /\ exit_status' = 1

\* Main's loop, up to the entry of Do's with block: instantiate the recipe
\* (os.getcwd() in BaseRecipe.__init__ can raise) and enter it.
RunRecipe ==
  /\ pc = "loop"
  /\ recipe_idx <= Len(options.acquire)
  /\ \/ /\ faults < MaxFaults
        /\ faults' = faults + 1
        /\ log' = [log EXCEPT
                     !.recipes = Append(@, options.acquire[recipe_idx]),
                     !.attempted = <<>>, !.raised = @ + 1]
        /\ IF MainCatches("IOError")
           THEN /\ errors' = Append(errors, "IOError")
                /\ recipe_idx' = recipe_idx + 1
                /\ UNCHANGED <<pc, exit_status>>
           ELSE /\ pc' = "raised"
                /\ exit_status' = 1
                /\ UNCHANGED <<errors, recipe_idx>>
        /\ UNCHANGED <<recipe, dirs, cwd>>
     \/ LET r == [name |-> options.acquire[recipe_idx], workdir |-> NoDir,
                  origin_dir |-> cwd]
            tmp == recipe_idx
        IN  /\ log' = [log EXCEPT
                         !.recipes = Append(@, options.acquire[recipe_idx]),
                         !.attempted = <<>>]
            /\ recipe' = Enter(r, tmp)
            /\ dirs' = dirs \cup {tmp}
            /\ cwd' = tmp
            /\ pc' = "get"
            /\ UNCHANGED <<errors, recipe_idx, exit_status, faults>>
  /\ UNCHANGED <<art, last, files, options, platform, uploader, dest,
                 artifacts, art_idx, message>>

\* recipe.GetArtifacts() in Do.
GetArtifacts ==
  /\ pc = "get"
  /\ \/ /\ faults < MaxFaults
        /\ faults' = faults + 1
        /\ log' = [log EXCEPT !.raised = @ + 1]
        /\ LeaveRecipe("CalledProcessError")
     \/ \E g \in GetArtifactsResults(recipe.name, platform, options) :
          /\ faults' = faults
          /\ IF g.exc # "none"
             THEN /\ log' = [log EXCEPT !.raised = @ + 1]
                  /\ LeaveRecipe(g.exc)
             ELSE /\ artifacts' = g.artifacts
                  /\ art_idx' = 0
                  /\ pc' = "upload"
                  /\ UNCHANGED <<files, errors, recipe_idx, cwd, recipe, dirs,
                                 exit_status, log>>
  /\ UNCHANGED <<art, last, options, platform, uploader, dest, message>>

\* The number of failures an environment choice injects.
EnvFaults(e) ==
  (IF e.stampFail >= 0 THEN 1 ELSE 0) + (IF e.openFails THEN 1 ELSE 0)
    + (IF e.failAt >= 0 THEN 1 ELSE 0) + (IF e.code # 0 THEN 1 ELSE 0)

\* The lengths of the files, command outputs and archives the driver
\* reads: one chunk.
DriverLens == {1}

\* One round of the loop of _UploadArtifacts: make the progress bar (which
\* is outside of any try), then _UploadArtifact, which catches what
\* UploadArtifact raises and appends it to the errors.
UploadNext ==
  /\ pc = "upload"
  /\ art_idx < Len(artifacts)
  /\ LET a == artifacts[art_idx + 1]
     IN  \/ /\ faults < MaxFaults
            /\ faults' = faults + 1
            /\ LeaveRecipe("Exception")
            /\ log' = [log EXCEPT !.raised = @ + 1]
            /\ UNCHANGED <<uploader, dest>>
         \/ \E e \in UploadEnv(uploader, a, DriverLens) :
              /\ faults + EnvFaults(e) <= MaxFaults
              /\ faults' = faults + EnvFaults(e)
              /\ LET r == UploadArtifact(uploader, a, files, dest, e, TRUE)
                 IN  /\ uploader' = r.u
                     /\ dest' = r.dest
                     /\ IF r.exc = "none" \/ UploadCatches(r.exc)
                        THEN /\ log' = LogUpload(log, a, r)
                             /\ errors' = IF r.exc = "none" THEN errors
                                          ELSE Append(errors, r.exc)
                             /\ artifacts' =
                                  [artifacts EXCEPT ![art_idx + 1] = r.a]
                             /\ art_idx' = art_idx + 1
                             /\ files' = r.files
                             /\ UNCHANGED <<pc, recipe_idx, cwd, recipe,
                                            dirs, exit_status>>
                        ELSE /\ log' = [LogUpload(log, a, r) EXCEPT
                                              !.failed = log.failed,
                                              !.raised = @ + 1]
                             /\ LeaveRecipe(r.exc)
  /\ UNCHANGED <<art, last, options, platform, message>>

\* The normal end of Do's with block, after the last artifact.
EndRecipe ==
  /\ pc = "upload"
  /\ art_idx = Len(artifacts)
  /\ cwd' = ExitCwd(recipe)
  /\ dirs' = ExitDirs(recipe, dirs)
  /\ files' = {}
  /\ recipe' = NoRecipe
  /\ artifacts' = <<>>
  /\ art_idx' = 0
  /\ recipe_idx' = recipe_idx + 1
  /\ pc' = "loop"
  /\ UNCHANGED <<art, last, options, platform, uploader, dest, log, errors,
                 message, exit_status, faults>>

\* The end of Main, after the loop: print the status line and return.
Finish ==
  /\ pc = "loop"
  /\ recipe_idx > Len(options.acquire)
  /\ message' = Classify(errors)
  /\ exit_status' = ExitStatus(errors)
  /\ pc' = "done"
  /\ UNCHANGED <<art, last, files, options, platform, uploader, dest, log,
                 recipe_idx, artifacts, art_idx, errors, cwd, recipe, dirs,
                 faults>>

Next == RunRecipe \/ GetArtifacts \/ UploadNext \/ EndRecipe \/ Finish

Spec == Init /\ [][Next]_vars

\* ------------------------------------------------ the uploader's contract
\* A caller holding one uploader of any class and calling UploadArtifact
\* on it with one new artifact after the other, with or without a progress
\* callback, as the tests of the uploaders do.
AllUploaders ==
  {NewUploader(k, 10) : k \in {"LocalCopier", "GCSUploader"}}
    \cup {NewUploader(k, n) :
            k \in {"LocalSplitterCopier", "GCSSplitterUploader"},
            n \in 0..MaxSlices}

InitUploader ==
  /\ art = NoArtifact
  /\ last = NoCall
  /\ files \in {{}, {HashlogFile(0)}}
  /\ options = [acquire |-> <<>>, disable_dcfldd |-> FALSE]
  /\ platform = "linux"
  /\ uploader \in AllUploaders
  /\ dest = <<>>
  /\ log = NoLog
  /\ pc = "uploader"
  /\ recipe_idx = 0
  /\ artifacts = <<>>
  /\ art_idx = 0
  /\ errors = <<>>
  /\ cwd = OriginDir
  /\ recipe = NoRecipe
  /\ dirs = {}
  /\ message = "none"
  /\ exit_status = 0
  /\ faults = 0

CallUploadArtifact ==
  /\ pc = "uploader"
  /\ log.calls < MaxUploads
  /\ \E a \in ArtifactVariants, cb \in BOOLEAN :
       /\ ~cb => IsSplitter(uploader) /\ a.kind = "Disk"
       /\ \E e \in UploadEnv(uploader, a, 0..MaxChunks) :
            LET r == UploadArtifact(uploader, a, files, dest, e, cb)
            IN  /\ art' = r.a
                /\ uploader' = r.u
                /\ dest' = r.dest
                /\ files' = r.files
                /\ log' = LogUpload(log, a, r)
                /\ last' = [NoCall EXCEPT !.call = "UploadArtifact",
                                          !.exc = r.exc,
                                          !.arg = cb]
  /\ UNCHANGED <<options, platform, pc, recipe_idx, artifacts, art_idx,
                 errors, cwd, recipe, dirs, message, exit_status, faults>>

NextUploader == CallUploadArtifact

SpecUploader == InitUploader /\ [][NextUploader]_vars

\* ----------------------------------------------------------- properties
\* The index in the current recipe's list of the image of the disk whose
\* hash log is artifacts[i] (0 if there is none).
ImageOf(i) ==
  LET S == {j \in 1..Len(artifacts) :
              artifacts[j].role = "image"
                /\ artifacts[j].disk = artifacts[i].disk}
  IN  IF S = {} THEN 0 ELSE CHOOSE j \in S : TRUE

\* C1: for every disk acquired with dcfldd, the stream of its hash log is
\* opened only after the image stream was read to its end and the imaging
\* process has exited.
C1_HashlogOpenedAfterImaging ==
  \A i \in 1..Len(artifacts) :
    (artifacts[i].role = "hashlog" /\ artifacts[i].stream # "None")
      => LET j == ImageOf(i)
         IN  /\ j # 0
             /\ j < i
             /\ artifacts[j].stream # "None"
             /\ artifacts[j].pos = artifacts[j].len
             /\ artifacts[j].proc = "exited"

\* C2: for any number of UploadArtifact calls on one uploader, stamp.json
\* is written to the destination exactly once, during the first call.
C2_StampWrittenOnceInFirstCall ==
  log.calls >= 1 => (log.stamp_ok = 1 /\ log.stamp_call = 1)

\* C3: no artifact stream is opened and no artifact object is written
\* before the uploader's stamp.json was written successfully, and a call
\* whose stamp upload raises raises without opening the artifact's stream.
C3_StampPrecedesEverything ==
  /\ (log.opens > 0 \/ DOMAIN dest \ {StampPath} # {})
       => (uploader.stamp_uploaded /\ StampPath \in DOMAIN dest
             /\ dest[StampPath] = 1 /\ log.stamp_ok = 1)
  /\ log.up.stamp = "failed"
       => (log.up.exc # "none" /\ ~log.up.opened /\ Unopened(art))

\* A second call that uploads the stamp and the artifact after the first
\* call's stamp upload raised.
C3_Witness ==
  /\ log.calls = 2
  /\ log.stamp_tries = 2
  /\ log.up.stamp = "ok"
  /\ log.up.opened
  /\ RemotePath(art) \in DOMAIN dest

\* The stamp upload of the run's first UploadArtifact call raised.
FirstStampFailed == log.stamp_tries >= 1 /\ log.stamp_call # 1

\* C4: once the stamp upload of the first UploadArtifact call has failed,
\* the run is aborted: no other artifact is given to the uploader and no
\* other recipe is started.
C4_StampFailureAbortsRun ==
  [][FirstStampFailed
       => (log'.calls = log.calls /\ log'.recipes = log.recipes)]_vars

\* C5 (step): an UploadArtifact call that raises adds its exception to the
\* errors and the loop goes on with the next artifact of the same recipe.
C5_FailureAbandonsOneArtifact ==
  [][(log'.calls = log.calls + 1 /\ log'.up.exc # "none")
       => (/\ errors' = Append(errors, log'.up.exc)
           /\ pc' = "upload"
           /\ art_idx' = art_idx + 1
           /\ Len(artifacts') = Len(artifacts)
           /\ recipe' = recipe)]_vars

\* C5 (order): the artifacts given to the uploader are the first ones of
\* the list GetArtifacts returned, in its order.
C5_AttemptedInOrder ==
  pc = "upload"
    => (/\ Len(log.attempted) = art_idx
        /\ \A i \in 1..art_idx : log.attempted[i] = RemotePath(artifacts[i]))

\* C5: within a recipe a failed upload abandons that artifact only: the
\* error is recorded and the later artifacts are attempted, in the order of
\* GetArtifacts.
C5_ArtifactFailureIsContained ==
  C5_FailureAbandonsOneArtifact /\ []C5_AttemptedInOrder

\* An upload that succeeded after an earlier upload of the same recipe
\* failed.
C5_Witness ==
  /\ pc = "upload"
  /\ Len(log.recipes) = 1
  /\ art_idx >= 2
  /\ log.failed >= 1
  /\ errors # <<>>
  /\ log.up.exc = "none"

\* C6: Main attempts every requested recipe: what a recipe raises is added
\* to the errors, the next recipes are run, and nothing leaves Main.
C6_EveryRecipeAttempted ==
  /\ pc # "raised"
  /\ Len(errors) = log.raised + log.failed
  /\ pc = "done" => log.recipes = options.acquire
  /\ pc \in {"get", "upload"}
       => log.recipes = SubSeq(options.acquire, 1, recipe_idx)
  /\ pc = "loop" => log.recipes = SubSeq(options.acquire, 1, recipe_idx - 1)

\* The second recipe is being run after the first one raised.
C6_Witness ==
  /\ pc = "upload"
  /\ recipe_idx = 2
  /\ log.raised = 1
  /\ log.failed = 0
  /\ Len(errors) = 1

\* C7: at the end of Main the re-run message is shown iff an accumulated
\* error is a RetryableError, the escalate message iff there are errors
\* and none is a RetryableError, the success message iff there is none.
C7_RunClassification ==
  pc = "done"
    => LET retry == \E i \in 1..Len(errors) : errors[i] = "RetryableError"
       IN  /\ message = "rerun" <=> retry
           /\ message = "escalate" <=> (errors # <<>> /\ ~retry)
           /\ message = "success" <=> errors = <<>>

\* A finished run whose errors hold a RetryableError followed by an error
\* of another class.
C7_Witness ==
  /\ pc = "done"
  /\ message = "rerun"
  /\ Len(errors) >= 2
  /\ errors[Len(errors)] # "RetryableError"

\* C8: the exit status of a run without errors differs from the exit
\* status of a run that accumulated an error.
C8_ExitStatusTellsFailure ==
  pc = "done" => (exit_status = 0 <=> errors = <<>>)

\* C9: while the with block of a recipe is active its working directory
\* exists and is the current directory, and every upload happens there;
\* after the block, however it ended, the current directory is the one
\* the recipe was made in and the working directory no longer exists.
C9_WorkdirScoped ==
  /\ pc \in {"get", "upload"}
       => (/\ recipe.workdir # NoDir
           /\ recipe.workdir # OriginDir
           /\ recipe.workdir \in dirs
           /\ cwd = recipe.workdir
           /\ recipe.origin_dir = OriginDir)
  /\ pc \in {"loop", "done", "raised"}
       => (cwd = OriginDir /\ dirs = {} /\ recipe = NoRecipe)

\* A recipe's block was left by an exception raised while uploading, after
\* an artifact was uploaded in it.
C9_Witness ==
  /\ pc = "loop"
  /\ recipe_idx = 2
  /\ log.calls >= 1
  /\ log.raised = 1
  /\ errors = <<"Exception">>
  /\ dirs = {}

MaxSegments == 3

EmptyString == <<"">>

Segments == {"", "some", "where"}

\* '/'.join(list of segments); the join of no segment is ''.
JoinSegments(segs) == IF segs = <<>> THEN EmptyString ELSE segs

\* urlparse(gs_url) of the urls a GCS uploader can be built with: the
\* path is '' or starts with '/', and a string without '://' has neither
\* scheme nor netloc.
UrlPaths ==
  {EmptyString}
    \cup {EmptyString \o q :
            q \in UNION {[1..n -> Segments] : n \in 1..MaxSegments}}

GCSUrls ==
  {[scheme |-> s, netloc |-> "bucket_name", path |-> p] :
     s \in {"gs", "http"}, p \in UrlPaths}
    \cup {[scheme |-> "", netloc |-> "", path |-> <<"invalid">>]}

DestinationDirs == {<<"", "mnt">>, <<"", "mnt", "">>, <<"usb">>}

\* BaseStampManager.GetStamp
Stamps ==
  [identifier : {"fake_uuid", "C02"}, start_time : {"20171012-135619"}]

\* The names handed to _MakeRemotePath: 'stamp.json' by _UploadStamp and
\* artifact.remote_path by UploadArtifact.
RemotePaths ==
  {<<"stamp.json">>, <<"Disks", "sdx.image">>, <<"system_info.txt">>}

NewGCSUploader(gs_url, stamp) ==
  [gs_url |-> gs_url, stamp |-> stamp, bucket_name |-> "None"]
    @@ NewUploader("GCSUploader", 10)

NewLocalCopier(destination_dir, stamp) ==
  [destination_dir |-> destination_dir, stamp |-> stamp]
    @@ NewUploader("LocalCopier", 10)

BasePathElements(stamp) == <<stamp.start_time, stamp.identifier>>

SplitGCSUrl_NoFilter(u) ==
  IF u.gs_url.scheme # "gs"
  THEN [exc |-> "ArgumentError", bucket_name |-> "None",
        remote_base_path |-> EmptyString]
  ELSE [exc |-> "none", bucket_name |-> u.gs_url.netloc,
        remote_base_path |-> u.gs_url.path]

SplitGCSUrl(u) ==
  IF u.gs_url.scheme # "gs"
  THEN [exc |-> "ArgumentError", bucket_name |-> "None",
        remote_base_path |-> EmptyString]
  ELSE [exc |-> "none", bucket_name |-> u.gs_url.netloc,
        remote_base_path |->
          JoinSegments(SelectSeq(u.gs_url.path, LAMBDA x : x # ""))]

GCSMakeRemotePath(u, destination) ==
  LET s == SplitGCSUrl(u)
      elems == BasePathElements(u.stamp)
      based == IF s.remote_base_path # EmptyString
               THEN s.remote_base_path \o elems ELSE elems
      full == IF destination # EmptyString
              THEN based \o destination ELSE based
  IN  IF s.exc # "none"
      THEN [u |-> u, exc |-> s.exc, path |-> "None", made |-> {}]
      ELSE [u |-> [u EXCEPT !.bucket_name = s.bucket_name],
            exc |-> "none", path |-> <<s.bucket_name>> \o full,
            made |-> {}]

\* os.path.dirname
Dirname(path) == SubSeq(path, 1, Len(path) - 1)

LocalMakeRemotePath(u, destination) ==
  LET remote_path ==
        u.destination_dir \o BasePathElements(u.stamp) \o destination
  IN  [u |-> u, exc |-> "none", path |-> remote_path,
       made |-> {Dirname(remote_path)}]

MakeRemotePath(u, destination) ==
  IF IsGCS(u) THEN GCSMakeRemotePath(u, destination)
  ELSE LocalMakeRemotePath(u, destination)

\* A caller holding one uploader and asking it for remote paths, as
\* _UploadStamp and UploadArtifact do.
InitPath ==
  /\ art = NoArtifact
  /\ last = NoCall
  /\ files = {}
  /\ options = [acquire |-> <<>>, disable_dcfldd |-> FALSE]
  /\ platform = "linux"
  /\ uploader \in
       {NewGCSUploader(g, st) : g \in GCSUrls, st \in Stamps}
         \cup {NewLocalCopier(dd, st) : dd \in DestinationDirs, st \in Stamps}
  /\ dest = <<>>
  /\ log = NoLog
  /\ pc = "path"
  /\ recipe_idx = 0
  /\ artifacts = <<>>
  /\ art_idx = 0
  /\ errors = <<>>
  /\ cwd = OriginDir
  /\ recipe = NoRecipe
  /\ dirs = {}
  /\ message = "none"
  /\ exit_status = 0
  /\ faults = 0

CallMakeRemotePath ==
  /\ pc = "path"
  /\ log.calls < MaxCalls
  /\ \E destination \in RemotePaths :
       LET r == MakeRemotePath(uploader, destination)
       IN  /\ uploader' = r.u
           /\ dirs' = dirs \cup r.made
           /\ last' = [NoCall EXCEPT !.call = "_MakeRemotePath",
                                     !.exc = r.exc,
                                     !.ret = r.path,
                                     !.arg = destination]
           /\ log' = [log EXCEPT
                        !.calls = @ + 1,
                        !.attempted =
                          IF r.exc = "none"
                          THEN Append(@, [destination |-> destination,
                                          path |-> r.path])
                          ELSE @]
  /\ UNCHANGED <<art, files, options, platform, dest, pc, recipe_idx,
                 artifacts, art_idx, errors, cwd, recipe, message,
                 exit_status, faults>>

NextPath == CallMakeRemotePath

SpecPath == InitPath /\ [][NextPath]_vars

\* The root bucket/prefix/T/U (or D/T/U) the claim gives to an uploader.
ExpectedRoot(u) ==
  (IF IsGCS(u)
   THEN <<u.gs_url.netloc>> \o SelectSeq(u.gs_url.path, LAMBDA x : x # "")
   ELSE u.destination_dir)
    \o <<u.stamp.start_time, u.stamp.identifier>>

\* C16: a GCS uploader built with gs://bucket/prefix and stamp (U, T) names
\* the object of remote_path R bucket/prefix/T/U/R, the empty segments of
\* the prefix dropped (bucket/T/U/R when the prefix is empty), and rejects
\* a url whose scheme is not gs with an ArgumentError; a local copier
\* built with directory D names it D/T/U/R; stamp.json gets the same root,
\* and all the names one uploader has built share it.
C16_RemotePathConstruction ==
  /\ last.call = "_MakeRemotePath"
       => IF IsGCS(uploader) /\ uploader.gs_url.scheme # "gs"
          THEN last.exc = "ArgumentError" /\ last.ret = "None"
          ELSE last.exc = "none"
                 /\ last.ret = ExpectedRoot(uploader) \o last.arg
  /\ \A i \in 1..Len(log.attempted) :
       log.attempted[i].path
         = ExpectedRoot(uploader) \o log.attempted[i].destination

C16_Witness ==
  /\ last.call = "_MakeRemotePath" /\ last.exc = "none"
  /\ IsGCS(uploader)
  /\ uploader.gs_url.path = <<"", "some", "", "where">>
  /\ last.arg = <<"Disks", "sdx.image">>
  /\ last.ret = <<"bucket_name", "some", "where", "20171012-135619",
                  "fake_uuid", "Disks", "sdx.image">>
  /\ \E i \in 1..Len(log.attempted) :
       log.attempted[i].path
         = <<"bucket_name", "some", "where", "20171012-135619",
             "fake_uuid", "stamp.json">>

\* C17: when the transport of a GCS uploader (plain or splitter) raises
\* GSDataError, UploadArtifact raises RetryableError; when it raises
\* anything else, UploadArtifact raises that same exception; and a
\* RetryableError out of a GCS upload always comes from a GSDataError.
C17_OnlyDataErrorIsRetryable ==
  (last.call = "UploadArtifact" /\ IsGCS(uploader))
    => /\ log.up.raised = "GSDataError" => log.up.exc = "RetryableError"
       /\ log.up.raised \notin {"none", "GSDataError"}
            => log.up.exc = log.up.raised
       /\ log.up.exc = "RetryableError" => log.up.raised = "GSDataError"

C17_Witness ==
  /\ last.call = "UploadArtifact"
  /\ uploader.kind = "GCSSplitterUploader"
  /\ art.kind = "Disk"
  /\ log.up.raised = "GSDataError" /\ log.up.exc = "RetryableError"
  /\ SlicePath(art, 0) \in DOMAIN dest
  /\ SlicePath(art, 1) \in DOMAIN dest /\ dest[SlicePath(art, 1)] = 0

\* The indices of the slices of artifact a that the destination d holds,
\* and the number of chunks in the slices of index i and above.
SliceIndices(a, d) == {i \in 0..a.size : SlicePath(a, i) \in DOMAIN d}

RECURSIVE SliceChunks(_, _, _)
SliceChunks(a, d, i) ==
  IF i > a.size THEN 0
  ELSE (IF SlicePath(a, i) \in DOMAIN d THEN d[SlicePath(a, i)] ELSE 0)
         + SliceChunks(a, d, i + 1)

\* The first UploadArtifact call of a splitter, for a disk artifact of size
\* S > 0 with slices = N >= 1 and a callback, in which neither the
\* transport nor the opening of the disk failed.
SplitUploadDone ==
  /\ last.call = "UploadArtifact" /\ last.arg = TRUE
  /\ log.calls = 1 /\ log.up.stamp = "ok" /\ log.up.raised = "none"
  /\ IsSplitter(uploader) /\ uploader.slices >= 1
  /\ art.kind = "Disk" /\ art.size > 0 /\ log.up.opened

\* C18: such an upload leaves slices 0..k at the destination, each but the
\* last of one same size that is a multiple of the page size (so slice i
\* starts at i times that size), and together they hold the S bytes of the
\* disk.
C18_SlicesCoverArtifact ==
  SplitUploadDone
    => LET idx == SliceIndices(art, dest)
       IN  /\ idx # {}
           /\ \A i \in idx : i = 0 \/ i - 1 \in idx
           /\ \A i, j \in idx :
                (i + 1 \in idx /\ j + 1 \in idx)
                  => /\ dest[SlicePath(art, i)] = dest[SlicePath(art, j)]
                     /\ dest[SlicePath(art, i)] % PAGESIZE = 0
                     /\ dest[SlicePath(art, i)] > 0
           /\ SliceChunks(art, dest, 0) = art.size

\* C19: a splitter configured with slices = N >= 1 leaves exactly the N
\* slices 0..N-1 of a disk artifact at the destination, and a splitter
\* configured with N < 1 refuses a disk artifact with BadConfigOption.
C19_ExactlyNSlices ==
  /\ SplitUploadDone => SliceIndices(art, dest) = 0..(uploader.slices - 1)
  /\ (/\ last.call = "UploadArtifact" /\ IsSplitter(uploader)
      /\ art.kind = "Disk" /\ uploader.slices < 1
      /\ log.up.stamp # "failed")
       => log.up.exc = "BadConfigOption"

\* ------------------------------------------------- resuming a split upload
\* A caller holding one splitter and one disk, who may enable the skipping
\* of existing slices and who calls UploadArtifact for that disk again and
\* again, each time with a new DiskArtifact and with a callback.  The
\* constructors set _skip_exist to False and take no argument for it, so
\* the caller enables it by assigning the attribute.
InitResume ==
  /\ art \in {NewArtifact("Disk", "test", 0, d, n) :
                d \in BOOLEAN, n \in 1..MaxChunks}
  /\ last = NoCall
  /\ files = {}
  /\ options = [acquire |-> <<>>, disable_dcfldd |-> FALSE]
  /\ platform = "linux"
  /\ uploader \in {u \in AllUploaders : IsSplitter(u)}
  /\ dest = <<>>
  /\ log = NoLog
  /\ pc = "resume"
  /\ recipe_idx = 0
  /\ artifacts = <<>>
  /\ art_idx = 0
  /\ errors = <<>>
  /\ cwd = OriginDir
  /\ recipe = NoRecipe
  /\ dirs = {}
  /\ message = "none"
  /\ exit_status = 0
  /\ faults = 0

EnableSkipExist ==
  /\ pc = "resume"
  /\ ~uploader.skip_exist
  /\ uploader' = [uploader EXCEPT !.skip_exist = TRUE]
  /\ UNCHANGED <<art, last, files, options, platform, dest, log, pc,
                 recipe_idx, artifacts, art_idx, errors, cwd, recipe, dirs,
                 message, exit_status, faults>>

RetryUploadArtifact ==
  /\ pc = "resume"
  /\ log.calls < MaxUploads
  /\ LET a == NewArtifact("Disk", art.role, art.disk, art.use_dcfldd,
                          art.size)
     IN  \E e \in UploadEnv(uploader, a, {0}) :
           LET r == UploadArtifact(uploader, a, files, dest, e, TRUE)
           IN  /\ art' = r.a
               /\ uploader' = r.u
               /\ dest' = r.dest
               /\ files' = r.files
               /\ log' = LogUpload(log, a, r)
               /\ last' = [NoCall EXCEPT !.call = "UploadArtifact",
                                         !.exc = r.exc,
                                         !.arg = TRUE]
  /\ UNCHANGED <<options, platform, pc, recipe_idx, artifacts, art_idx,
                 errors, cwd, recipe, dirs, message, exit_status, faults>>

NextResume == EnableSkipExist \/ RetryUploadArtifact

SpecResume == InitResume /\ [][NextResume]_vars

\* C20: an UploadArtifact call of a splitter that skips existing slices,
\* for a raw disk of at least slices pages, in which the transport does not
\* fail, leaves the slices that were at the destination as they were,
\* leaves the destination with slices that hold the whole disk, and ends
\* its calls of the callback with (artifact size, artifact size).
C20_ResumeSkipsExisting ==
  [][(/\ log'.calls = log.calls + 1
      /\ uploader.skip_exist /\ uploader.slices >= 1
      /\ ~art'.use_dcfldd /\ art'.size >= uploader.slices * PAGESIZE
      /\ log'.up.stamp # "failed" /\ log'.up.raised = "none"
      /\ log'.up.opened)
       => (/\ \A i \in SliceIndices(art, dest) :
                dest'[SlicePath(art, i)] = dest[SlicePath(art, i)]
           /\ SliceChunks(art', dest', 0) = art'.size
           /\ log'.up.cbs # <<>>
           /\ log'.up.cbs[Len(log'.up.cbs)] = <<art'.size, art'.size>>)]_vars

\* -------------------------------------------------------- the disk recipe
\* DiskRecipe.GetArtifacts called once on a machine whose block devices
\* are the environment's choice.
MaxDevices == 2

\* The sizes lsblk reports (0 for a reader without a medium).
DiskSizes == {0, 1, 2}

\* The name of the i-th device found.
DeviceNames == <<"sda", "sdb", "sdc", "sdd">>

\* What is known of one block device besides its name: lsblk's type and
\* size and udevadm's MAJOR and ID_BUS on Linux ("None": property not
\* set); the size, bus protocol, internal flag and virtual-or-physical of
\* macdisk on macOS.
DeviceAttrs(plat) ==
  IF plat = "darwin"
  THEN [type : {"disk"}, size : DiskSizes \ {0}, major : {"None"},
        bus : {"USB", "SATA"}, internal : BOOLEAN, virtual : {FALSE}]
         \cup [type : {"disk"}, size : {1}, major : {"None"},
               bus : {"SATA"}, internal : {TRUE}, virtual : {TRUE}]
  ELSE [type : {"disk"}, size : DiskSizes, major : {"2", "8"},
        bus : {"usb", "ata", "None"}, internal : {TRUE}, virtual : {FALSE}]
         \cup [type : {"loop"}, size : {1}, major : {"7"}, bus : {"None"},
               internal : {TRUE}, virtual : {FALSE}]

Device(i, at) ==
  [name |-> DeviceNames[i], type |-> at.type, size |-> at.size,
   major |-> at.major, bus |-> at.bus, internal |-> at.internal,
   virtual |-> at.virtual]

\* The lists of block devices a machine can have, in discovery order.
BlockDevices(plat) ==
  UNION {{[i \in 1..n |-> Device(i, at[i])] :
            at \in [1..n -> DeviceAttrs(plat)]} :
         n \in 0..MaxDevices}

\* DiskRecipe._ListAllDisksLinux and _ListAllDisksMac: an artifact for
\* each device of type 'disk'; DiskArtifact.__init__ raises ValueError for
\* a size that is not positive.
ListAllDisks(plat, devs) ==
  LET disks == SelectSeq(devs, LAMBDA d : d.type = "disk")
  IN  IF \E i \in 1..Len(disks) : disks[i].size <= 0
      THEN [exc |-> "ValueError", disks |-> <<>>]
      ELSE [exc |-> "none", disks |-> disks]

\* sorted(disk_list, reverse=True, key=size): x goes behind every disk
\* that is not smaller, so equal sizes keep their order.
RECURSIVE InsertBySize(_, _)
InsertBySize(x, s) ==
  IF s = <<>> THEN <<x>>
  ELSE IF Head(s).size >= x.size THEN <<Head(s)>> \o InsertBySize(x, Tail(s))
  ELSE <<x>> \o s

RECURSIVE SortBySize(_)
SortBySize(s) ==
  IF s = <<>> THEN <<>>
  ELSE InsertBySize(s[Len(s)], SortBySize(SubSeq(s, 1, Len(s) - 1)))

\* A ProbablyADisk that looks at the bus only.
ProbablyADisk_BusOnly(plat, d) ==
  IF plat = "darwin"
  THEN d.bus # "USB" /\ d.internal /\ ~d.virtual
  ELSE d.bus # "usb"

\* LinuxDiskArtifact.ProbablyADisk and MacDiskArtifact.ProbablyADisk.
ProbablyADisk(plat, d) ==
  IF plat = "darwin"
  THEN IF d.bus = "USB" THEN FALSE
       ELSE d.internal /\ ~d.virtual
  ELSE IF d.major = "2" THEN FALSE
       ELSE IF d.bus = "usb" THEN FALSE
       ELSE TRUE

\* A filter that guesses before it looks at the names.
FilterDisks_GuessFirst(plat, disk_list, all_devices, names) ==
  IF ~all_devices
  THEN SelectSeq(disk_list, LAMBDA d : ProbablyADisk(plat, d))
  ELSE IF names # {}
  THEN SelectSeq(disk_list, LAMBDA d : d.name \in names)
  ELSE disk_list

\* The three returns of DiskRecipe._ListDisks.
FilterDisks(plat, disk_list, all_devices, names) ==
  IF names # {}
  THEN SelectSeq(disk_list, LAMBDA d : d.name \in names)
  ELSE IF ~all_devices
  THEN SelectSeq(disk_list, LAMBDA d : ProbablyADisk(plat, d))
  ELSE disk_list

\* A _ListDisks that keeps the discovery order.
ListDisks_Unsorted(plat, devs, all_devices, names) ==
  LET l == ListAllDisks(plat, devs)
  IN  IF l.exc # "none" THEN l
      ELSE [exc |-> "none",
            disks |-> FilterDisks(plat, l.disks, all_devices, names)]

\* DiskRecipe._ListDisks(all_devices, names).
ListDisks(plat, devs, all_devices, names) ==
  LET l == ListAllDisks(plat, devs)
  IN  IF l.exc # "none" THEN l
      ELSE [exc |-> "none",
            disks |-> FilterDisks(plat, SortBySize(l.disks), all_devices,
                                  names)]

\* The sub-list of s made of the elements whose index is in I.
RECURSIVE Pick(_, _, _)
Pick(s, I, i) ==
  IF i > Len(s) THEN <<>>
  ELSE (IF i \in I THEN <<s[i]>> ELSE <<>>) \o Pick(s, I, i + 1)

\* cli.AskDiskList and gui.AskDiskList: the lists the user can select
\* from disk_list.  On the command line an empty answer selects the disks
\* for which ProbablyADisk holds and any other accepted answer is a
\* non-empty set of indices; the check list of zenity accepts any set of
\* rows.
AskDiskList(plat, opts, disk_list) ==
  IF opts.no_zenity
  THEN {SelectSeq(disk_list, LAMBDA d : ProbablyADisk(plat, d))}
         \cup {Pick(disk_list, I, 1) :
                 I \in (SUBSET (1..Len(disk_list))) \ {{}}}
  ELSE {Pick(disk_list, I, 1) : I \in SUBSET (1..Len(disk_list))}

\* A group with the hash log before the image.
DiskGroup_HashlogFirst(plat, use_dcfldd, disk) ==
  (IF plat = "darwin" THEN <<>>
   ELSE <<NewArtifact("String", "udevadm", disk.name, FALSE, 1)>>)
    \o (IF use_dcfldd
        THEN <<NewArtifact("File", "hashlog", disk.name, FALSE, 0)>>
        ELSE <<>>)
    \o <<NewArtifact("Disk", "image", disk.name, use_dcfldd, disk.size)>>

\* The body of the loop of DiskRecipe.GetArtifacts: the artifacts of one
\* disk.  _GetDiskInfoArtifact returns None on macOS.
DiskGroup(plat, use_dcfldd, disk) ==
  (IF plat = "darwin" THEN <<>>
   ELSE <<NewArtifact("String", "udevadm", disk.name, FALSE, 1)>>)
    \o <<NewArtifact("Disk", "image", disk.name, use_dcfldd, disk.size)>>
    \o (IF use_dcfldd
        THEN <<NewArtifact("File", "hashlog", disk.name, FALSE, 0)>>
        ELSE <<>>)

RECURSIVE DiskGroupsOf(_, _, _)
DiskGroupsOf(plat, use_dcfldd, disks) ==
  IF disks = <<>> THEN <<>>
  ELSE DiskGroup(plat, use_dcfldd, Head(disks))
         \o DiskGroupsOf(plat, use_dcfldd, Tail(disks))

\* The options DiskRecipe.GetArtifacts looks at.
DiskOptions ==
  [disable_dcfldd : BOOLEAN, select_disks : {FALSE}, no_zenity : {FALSE},
   disk : {{}, {"sda"}, {"sdb", "sdz"}}]
    \cup [disable_dcfldd : BOOLEAN, select_disks : {TRUE},
          no_zenity : BOOLEAN, disk : {{}}]

\* The selection of GetArtifacts: the list _ListDisks returned and the
\* disks to collect it can end with, or the exception it raises.
Selected(l, disks) == [exc |-> l.exc, disks |-> disks, listed |-> l.disks]

DisksToCollect(plat, opts, devs) ==
  IF opts.select_disks
  THEN LET all_disks == ListDisks(plat, devs, TRUE, {})
       IN  IF all_disks.exc # "none" THEN {Selected(all_disks, <<>>)}
           ELSE {Selected(all_disks, c) :
                   c \in AskDiskList(plat, opts, all_disks.disks)}
  ELSE IF opts.disk # {}
  THEN LET l == ListDisks(plat, devs, FALSE, opts.disk)
       IN  {Selected(l, l.disks)}
  ELSE LET l == ListDisks(plat, devs, FALSE, {})
       IN  {Selected(l, l.disks)}

\* A GetArtifacts that makes the inventory only when a disk is collected.
DiskRecipeGetArtifacts_InventoryIfDisks(plat, use_dcfldd, sel) ==
  IF sel.exc # "none" THEN GetResult(sel.exc, <<>>)
  ELSE GetResult("none",
                 (IF sel.disks = <<>> THEN <<>>
                  ELSE <<NewArtifact("String", "inventory", 0, FALSE, 1)>>)
                   \o DiskGroupsOf(plat, use_dcfldd, sel.disks))

\* DiskRecipe.GetArtifacts after the selection sel: the inventory, then the
\* artifacts of each disk to collect.  No disk to collect is only warned
\* about.
DiskRecipeGetArtifacts(plat, use_dcfldd, sel) ==
  IF sel.exc # "none" THEN GetResult(sel.exc, <<>>)
  ELSE GetResult("none",
                 <<NewArtifact("String", "inventory", 0, FALSE, 1)>>
                   \o DiskGroupsOf(plat, use_dcfldd, sel.disks))

InitDisk ==
  /\ art = NoArtifact
  /\ last = NoCall
  /\ files = {}
  /\ options \in DiskOptions
  /\ platform \in {"linux", "darwin"}
  /\ uploader = NewUploader("LocalCopier", 1)
  /\ dest = <<>>
  /\ log = NoLog
  /\ pc = "disk"
  /\ recipe_idx = 0
  /\ artifacts = <<>>
  /\ art_idx = 0
  /\ errors = <<>>
  /\ cwd = OriginDir
  /\ recipe = [name |-> "disk", workdir |-> NoDir, origin_dir |-> OriginDir,
               use_dcfldd |-> TRUE]
  /\ dirs = {}
  /\ message = "none"
  /\ exit_status = 0
  /\ faults = 0

\* recipe.GetArtifacts(): last.arg is what the machine had, last.ret the
\* disks to collect.
CallGetArtifacts ==
  /\ pc = "disk"
  /\ last.call = "new"
  /\ \E devs \in BlockDevices(platform) :
       \E sel \in DisksToCollect(platform, options, devs) :
         LET use_dcfldd == recipe.use_dcfldd /\ ~options.disable_dcfldd
             g == DiskRecipeGetArtifacts(platform, use_dcfldd, sel)
         IN  /\ recipe' = [recipe EXCEPT !.use_dcfldd = use_dcfldd]
             /\ artifacts' = g.artifacts
             /\ last' = [NoCall EXCEPT
                           !.call = "GetArtifacts",
                           !.calls = 1,
                           !.exc = g.exc,
                           !.ret = IF g.exc = "none" THEN sel.disks
                                   ELSE "None",
                           !.arg = devs,
                           !.listed = sel.listed]
  /\ UNCHANGED <<art, files, options, platform, uploader, dest, log, pc,
                 recipe_idx, art_idx, errors, cwd, dirs, message,
                 exit_status, faults>>

\* The names a caller of _ListDisks can give.
NameLists == {{}, {"sda"}, {"sdb", "sdz"}}

\* recipe._ListDisks(all_devices, names) called directly, as the tests do.
CallListDisks ==
  /\ pc = "disk"
  /\ last.call = "new"
  /\ \E devs \in BlockDevices(platform), all_devices \in BOOLEAN,
        names \in NameLists :
       LET l == ListDisks(platform, devs, all_devices, names)
       IN  last' = [NoCall EXCEPT
                      !.call = "_ListDisks",
                      !.calls = 1,
                      !.exc = l.exc,
                      !.arg = devs,
                      !.args = <<all_devices, names>>,
                      !.listed = l.disks]
  /\ UNCHANGED <<art, files, options, platform, uploader, dest, log, pc,
                 recipe_idx, artifacts, art_idx, errors, cwd, recipe, dirs,
                 message, exit_status, faults>>

NextDisk == CallGetArtifacts \/ CallListDisks

SpecDisk == InitDisk /\ [][NextDisk]_vars

\* GetArtifacts returned a list for the disks to collect last.ret.
GotArtifacts == last.call = "GetArtifacts" /\ last.exc = "none"

\* The position of the first artifact of the k-th disk's group in a list
\* whose groups have g artifacts.
GroupStart(k, g) == 1 + (k - 1) * g

C22_InventoryAlwaysProduced ==
  GotArtifacts
    => /\ Len(artifacts) >= 1
       /\ artifacts[1].kind = "String" /\ artifacts[1].role = "inventory"
       /\ \A i \in 2..Len(artifacts) : artifacts[i].role # "inventory"

C22_Witness ==
  /\ GotArtifacts
  /\ options.disk = {"sdb", "sdz"}
  /\ Len(last.arg) = 1 /\ last.arg[1].type = "disk"
  /\ last.ret = <<>>
  /\ Len(artifacts) = 1 /\ artifacts[1].role = "inventory"

\* C23: DiskRecipe.GetArtifacts never returns a list when there is no disk
\* to collect: it raises RecipeException instead.
C23_NoDiskIsRecipeException == GotArtifacts => last.ret # <<>>

\* The disk the default selection looked at: a Linux device of type 'disk'
\* that GetArtifacts listed while guessing (no names, no interactive
\* selection).
Guessed(d) ==
  /\ GotArtifacts /\ platform = "linux"
  /\ ~options.select_disks /\ options.disk = {}
  /\ d.type = "disk"

Kept(d) == \E k \in 1..Len(last.ret) : last.ret[k] = d

\* C24: ProbablyADisk of a Linux device is false when udev's MAJOR is "2",
\* whatever the bus, false when the bus is usb, whatever the rest, and true
\* in every other case, the device without ID_BUS included: seen through
\* the default selection, which keeps exactly the disks for which it holds.
C24_ProbablyADiskTruthTable ==
  \A i \in 1..(IF GotArtifacts THEN Len(last.arg) ELSE 0) :
    LET d == last.arg[i]
    IN  Guessed(d)
          => /\ d.major = "2" => ~Kept(d)
             /\ d.bus = "usb" => ~Kept(d)
             /\ (d.major # "2" /\ d.bus # "usb") => Kept(d)

C24_Witness ==
  /\ GotArtifacts /\ platform = "linux"
  /\ ~options.select_disks /\ options.disk = {}
  /\ Len(last.arg) = 2
  /\ last.arg[1].major = "2" /\ last.arg[1].bus = "ata"
  /\ last.arg[1].type = "disk"
  /\ last.arg[2].major = "8" /\ last.arg[2].bus = "None"
  /\ last.arg[2].type = "disk"
  /\ last.ret = <<last.arg[2]>>

\* The devices of type 'disk' among those the machine had, and the place
\* of a device in the discovery order.
ListedDisks == {last.arg[i] : i \in {j \in 1..Len(last.arg) :
                                       last.arg[j].type = "disk"}}

Discovery(d) == CHOOSE i \in 1..Len(last.arg) : last.arg[i] = d

\* s goes by size, largest first, equal sizes in discovery order, and
\* holds only devices of type 'disk'.
SizeOrdered(s) ==
  /\ \A i \in 1..Len(s) : s[i] \in ListedDisks
  /\ \A i, j \in 1..Len(s) :
       i < j => \/ s[i].size > s[j].size
                \/ /\ s[i].size = s[j].size
                   /\ Discovery(s[i]) < Discovery(s[j])

\* C25: the list _ListDisks returns is ordered by size, largest first,
\* devices of one size in discovery order, holds only devices of type
\* 'disk', in every filtering mode; the disks GetArtifacts collects keep
\* that order.
C25_ListedBySizeDescending ==
  (last.call \in {"_ListDisks", "GetArtifacts"} /\ last.exc = "none")
    => /\ SizeOrdered(last.listed)
       /\ last.call = "GetArtifacts" => SizeOrdered(last.ret)

C25_Witness ==
  /\ last.call = "_ListDisks" /\ last.exc = "none"
  /\ last.args = <<TRUE, {}>>
  /\ Len(last.arg) = 2
  /\ last.arg[1].size = 1 /\ last.arg[2].size = 2
  /\ last.listed = <<last.arg[2], last.arg[1]>>

\* The sequence s holds exactly the devices of the set S, each once.
HoldsExactly(s, S) ==
  /\ {s[i] : i \in 1..Len(s)} = S
  /\ Len(s) = Cardinality(S)

\* C26: _ListDisks(all_devices, names) returns, when names are given,
\* exactly the listed devices whose name is one of them (a name no device
\* has changes nothing); otherwise, with all_devices, every listed device;
\* otherwise exactly the listed devices for which ProbablyADisk holds.
C26_FilteringModes ==
  (last.call = "_ListDisks" /\ last.exc = "none")
    => LET all_devices == last.args[1]
           names == last.args[2]
       IN  HoldsExactly(
             last.listed,
             IF names # {}
             THEN {d \in ListedDisks : d.name \in names}
             ELSE IF all_devices THEN ListedDisks
             ELSE {d \in ListedDisks :
                     IF platform = "darwin"
                     THEN d.bus # "USB" /\ d.internal /\ ~d.virtual
                     ELSE d.major # "2" /\ d.bus # "usb"})

C26_Witness ==
  /\ last.call = "_ListDisks" /\ last.exc = "none"
  /\ platform = "linux"
  /\ last.args = <<FALSE, {"sdb", "sdz"}>>
  /\ Len(last.arg) = 2
  /\ last.arg[1].type = "disk" /\ last.arg[1].bus = "ata"
  /\ last.arg[1].major = "8"
  /\ last.arg[2].type = "disk" /\ last.arg[2].bus = "usb"
  /\ last.listed = <<last.arg[2]>>

\* ---------------------------------------------------------------------------
\* Command output artifacts
\* ---------------------------------------------------------------------------

\* The artifact is a ProcessOutputArtifact whose command ran and exited
\* with code 0: its output is buffered behind the stream.
CommandSucceeded ==
  art.kind = "ProcessOutput" /\ art.started > 0 /\ art.stream # "None"

\* C27: a command output artifact has size 0 until OpenStream is first
\* called; once its command has run and exited with code 0, its size is
\* the number of chunks the command wrote to stdout, and reading the stream
\* delivers these chunks and no more.
C27_CommandOutputSize ==
  art.kind = "ProcessOutput" =>
    /\ last.opens = 0 => art.size = 0
    /\ CommandSucceeded => art.size = art.len /\ art.pos <= art.size

\* A command that wrote MaxChunks chunks was read to the end.
C27_Witness ==
  /\ CommandSucceeded
  /\ last.call = "read"
  /\ art.size = MaxChunks
  /\ art.pos = art.size

\* C28: OpenStream on a command output artifact never raises once its
\* command has been started, whatever the exit code: it returns a stream
\* over the content (the output, or the description of the failure) and
\* the artifact's size is the length of that content.
C28_FailedCommandIsSoftFailure ==
  (art.kind = "ProcessOutput" /\ last.call = "OpenStream" /\ last.spawned)
    => /\ last.exc = "none"
       /\ last.ret = "open"
       /\ art.size = art.len

\* ---------------------------------------------------------------------------
\* Firmware recipe
\* ---------------------------------------------------------------------------

\* C29: on Linux the firmware recipe hands the driver exactly one command
\* output artifact, Firmware/rom.bin, and adds no error to the driver's
\* list: a run that acquires only the firmware and meets no other failure
\* ends with an empty list of errors.
C29_FirmwareAddsNoError ==
  (platform = "linux" /\ options.acquire = <<"firmware">>)
    => /\ faults = 0 => errors = <<>>
       /\ (pc = "upload" /\ recipe.name = "firmware")
            => /\ Len(artifacts) = 1
               /\ artifacts[1].kind = "ProcessOutput"
               /\ artifacts[1].role = "firmware"

\* ---------------------------------------------------------------------------
\* Main from the command line: ParseArguments and _MakeUploader, then the
\* loop over the recipes
\* ---------------------------------------------------------------------------

\* The destination argument, by the prefix the code tests: a gs:// URL, an
\* absolute path, anything else.
Destinations == {"gs://", "/", "other"}

\* What json.load reads from the file --gs_keyfile names: "None" when the
\* option is absent, an empty object, an object without client_id, an
\* object with client_id and project_id.
KeyFiles == {"None", "empty", "no_client_id", "valid"}

\* The command lines: the namespace argparse builds from them.  Every
\* combination of the checked options with two lists of recipes, and
\* lists that repeat a recipe or name 'all', to a local destination.
CommandLines ==
  [acquire : {<<"sysinfo">>, <<"sysinfo", "disk">>},
   disable_dcfldd : {FALSE},
   destination : Destinations,
   gs_keyfile : KeyFiles,
   logging : {{"stdout"}, {"stdout", "stackdriver"}},
   log_progress : BOOLEAN,
   select_disks : BOOLEAN]
  \cup
  [acquire : {<<"sysinfo", "sysinfo">>, <<"sysinfo", "directory", "sysinfo">>,
              <<"all">>, <<"directory", "all">>},
   disable_dcfldd : {FALSE},
   destination : {"/"},
   gs_keyfile : {"None"},
   logging : {{"stdout"}},
   log_progress : {FALSE},
   select_disks : {FALSE}]

\* self._uploader before _MakeUploader has run.
NoUploader == NewUploader("None", 0)

Range(s) == {s[i] : i \in 1..Len(s)}

\* A _ParseRecipes that keeps the list as it was given.
ParseRecipes_AsGiven(acquire) ==
  IF "all" \in Range(acquire) THEN Sorted({"disk", "firmware", "sysinfo"})
  ELSE acquire

\* _ParseRecipes: 'all' stands for the default recipes; the result is
\* deduplicated and sorted.
ParseRecipes(acquire) ==
  IF "all" \in Range(acquire) THEN Sorted({"disk", "firmware", "sysinfo"})
  ELSE Sorted(Range(acquire))

\* _ParseGCSJSON: the parsed key file, None without --gs_keyfile.
ParseGCSJSON(opts) == opts.gs_keyfile

\* `not self._gcs_settings`: None and the empty dict are false.
NoSettings(gcs_settings) == gcs_settings \in {"None", "empty"}

\* _ParseLoggingArguments: the exception it raises.
ParseLoggingArguments(opts, gcs_settings) ==
  IF "stackdriver" \in opts.logging /\ NoSettings(gcs_settings)
  THEN "BadConfigOption"
  ELSE IF opts.log_progress /\ "stackdriver" \notin opts.logging
  THEN "BadConfigOption"
  ELSE "none"

\* A ParseArguments that accepts --select_disks with any recipe.
ParseArguments_NoSelectCheck(opts) ==
  LET parsed == [opts EXCEPT !.acquire = ParseRecipes(@)]
      gcs_settings == ParseGCSJSON(parsed)
  IN  [exc |-> ParseLoggingArguments(parsed, gcs_settings),
       options |-> parsed, gcs_settings |-> gcs_settings]

\* ParseArguments: the recipes, the key file and the logging flags are
\* parsed in this order, then --select_disks is checked against the
\* recipes.
ParseArguments(opts) ==
  LET parsed == [opts EXCEPT !.acquire = ParseRecipes(@)]
      gcs_settings == ParseGCSJSON(parsed)
      logging_exc == ParseLoggingArguments(parsed, gcs_settings)
  IN  [exc |-> IF logging_exc # "none" THEN logging_exc
               ELSE IF parsed.select_disks /\ "disk" \notin Range(parsed.acquire)
               THEN "BadConfigOption"
               ELSE "none",
       options |-> parsed, gcs_settings |-> gcs_settings]

\* _MakeUploader with its checks: the exception raised, whether an
\* uploader was returned (None is returned for a destination that is
\* neither a gs:// URL nor an absolute path), and the uploader.
MakeUploaderResult(opts, gcs_settings) ==
  IF opts.destination = "gs://"
  THEN IF NoSettings(gcs_settings) \/ gcs_settings = "no_client_id"
       THEN [exc |-> "BadConfigOption", made |-> FALSE, uploader |-> NoUploader]
       ELSE [exc |-> "none", made |-> TRUE,
             uploader |-> MakeUploader(opts.destination)]
  ELSE IF opts.destination = "/"
  THEN [exc |-> "none", made |-> TRUE,
        uploader |-> MakeUploader(opts.destination)]
  ELSE [exc |-> "none", made |-> FALSE, uploader |-> NoUploader]

\* Main is started with a command line; nothing exists yet.
InitConfig ==
  /\ art = NoArtifact
  /\ last = NoCall
  /\ files = {}
  /\ options \in CommandLines
  /\ platform \in {"linux", "darwin"}
  /\ uploader = NoUploader
  /\ dest = <<>>
  /\ log = NoLog
  /\ pc = "start"
  /\ recipe_idx = 1
  /\ artifacts = <<>>
  /\ art_idx = 0
  /\ errors = <<>>
  /\ cwd = OriginDir
  /\ recipe = NoRecipe
  /\ dirs = {}
  /\ message = "none"
  /\ exit_status = 0
  /\ faults = 0

\* Main up to its loop: ParseArguments, _MakeUploader and the test of the
\* uploader.  An exception raised here leaves Main.
StartMain ==
  /\ pc = "start"
  /\ LET p == ParseArguments(options)
         m == MakeUploaderResult(p.options, p.gcs_settings)
         exc == IF p.exc # "none" THEN p.exc
                ELSE IF m.exc # "none" THEN m.exc
                ELSE IF ~m.made THEN "Exception"
                ELSE "none"
     IN  /\ last' = [last EXCEPT !.call = "Main", !.exc = exc,
                                  !.arg = options.acquire]
         /\ IF exc = "none"
            THEN /\ options' = p.options
                 /\ uploader' = m.uploader
                 /\ pc' = "loop"
                 /\ exit_status' = exit_status
            ELSE /\ options' = options
                 /\ uploader' = uploader
                 /\ pc' = "raised"
                 /\ exit_status' = 1
  /\ UNCHANGED <<art, files, platform, dest, log, recipe_idx, artifacts,
                 art_idx, errors, cwd, recipe, dirs, message, faults>>

NextConfig == StartMain \/ Next

SpecConfig == InitConfig /\ [][NextConfig]_vars

\* The command line has one of the configuration errors.
ConfigurationError ==
  \/ options.destination = "gs://" /\ options.gs_keyfile \in {"None", "empty"}
  \/ options.destination = "gs://" /\ options.gs_keyfile = "no_client_id"
  \/ options.destination \notin {"gs://", "/"}
  \/ options.select_disks /\ Range(options.acquire) \cap {"disk", "all"} = {}
  \/ options.log_progress /\ "stackdriver" \notin options.logging

\* C30: with a gs:// destination and no usable key file or no client_id,
\* a destination that is neither gs:// nor an absolute path,
\* --select_disks without the disk recipe, or --log_progress without
\* stackdriver logging, Main raises, and no recipe was instantiated, no
\* working directory made and no object written.
C30_ConfigurationErrorsArePreflight ==
  (ConfigurationError /\ pc # "start")
    => /\ pc = "raised"
       /\ last.exc \in {"BadConfigOption", "Exception"}
       /\ log = NoLog
       /\ recipe = NoRecipe
       /\ dirs = {}
       /\ files = {}
       /\ dest = <<>>
       /\ errors = <<>>

\* Main raised for --select_disks without the disk recipe, on a command
\* line that has no other error.
C30_Witness ==
  /\ pc = "raised"
  /\ last.call = "Main" /\ last.exc = "BadConfigOption"
  /\ options.select_disks /\ options.acquire = <<"sysinfo">>
  /\ options.destination = "/"
  /\ ~options.log_progress
  /\ options.logging = {"stdout"}

\* Main got through ParseArguments and _MakeUploader.
MainStarted == last.call = "Main" /\ last.exc = "none"

\* The recipes a list of --acquire values asks for.
Requested(acquire) ==
  IF "all" \in Range(acquire) THEN {"disk", "firmware", "sysinfo"}
  ELSE Range(acquire)

NoDuplicates(s) == \A i, j \in 1..Len(s) : s[i] = s[j] => i = j

MaxDMILen == 2

\* The characters of these files: white space and two others.
DMIChars == {" ", "A", "B"}

\* A file under /sys/class/dmi/id: whether open() succeeds, and its content.
DMIFiles ==
  {[readable |-> FALSE, content |-> <<>>]}
    \cup {[readable |-> TRUE, content |-> c] :
            c \in UNION {[1..n -> DMIChars] : n \in 0..MaxDMILen}}

\* str.strip(): the content without its leading and trailing white space.
RECURSIVE Strip(_)
Strip(s) ==
  IF s = <<>> THEN s
  ELSE IF Head(s) = " " THEN Strip(Tail(s))
  ELSE IF s[Len(s)] = " " THEN Strip(SubSeq(s, 1, Len(s) - 1))
  ELSE s

\* ReadDMI: None when the file cannot be opened, else its stripped content.
ReadDMI(file) ==
  IF file.readable THEN [none |-> FALSE, value |-> Strip(file.content)]
  ELSE [none |-> TRUE, value |-> <<>>]

\* The truth value of what ReadDMI returns: None and '' are false.
Truthy(v) == ~v.none /\ v.value # <<>>

\* A GetIdentifier that takes every value that is not None.
GetIdentifier_NotNone(dmi, random_uuid) ==
  LET serial == ReadDMI(dmi.chassis_serial)
      machine_uuid == ReadDMI(dmi.product_uuid)
  IN  IF ~serial.none THEN [identifier |-> serial.value, uuid4 |-> 0]
      ELSE IF ~machine_uuid.none
      THEN [identifier |-> machine_uuid.value, uuid4 |-> 0]
      ELSE [identifier |-> random_uuid, uuid4 |-> 1]

\* GetIdentifier: GetChassisSerial() or GetMachineUUID() or GetRandomUUID(),
\* with the number of calls of uuid.uuid4() it makes.
GetIdentifier(dmi, random_uuid) ==
  LET serial == ReadDMI(dmi.chassis_serial)
      machine_uuid == ReadDMI(dmi.product_uuid)
  IN  IF Truthy(serial) THEN [identifier |-> serial.value, uuid4 |-> 0]
      ELSE IF Truthy(machine_uuid)
      THEN [identifier |-> machine_uuid.value, uuid4 |-> 0]
      ELSE [identifier |-> random_uuid, uuid4 |-> 1]

\* BaseStampManager.GetStamp: the identifier and the start time.
GetStamp(dmi, random_uuid, time) ==
  [identifier |-> GetIdentifier(dmi, random_uuid).identifier,
   start_time |-> time]

\* What uuid.uuid4() can return, as text.
RandomUUIDs == {<<"U", "1">>, <<"U", "2">>}

\* A machine with its two DMI files; no stamp was asked for yet.
InitStamp ==
  /\ art = NoArtifact
  /\ last = NoCall
  /\ files \in [chassis_serial : DMIFiles, product_uuid : DMIFiles]
  /\ DriverIdle

\* BaseStampManager().GetStamp() on this machine.
CallGetStamp ==
  /\ last.calls < MaxCalls
  /\ \E random_uuid \in RandomUUIDs :
       last' = [last EXCEPT
                  !.call = "GetStamp", !.exc = "none",
                  !.ret = GetStamp(files, random_uuid, "20171012-135619"),
                  !.arg = random_uuid,
                  !.made = GetIdentifier(files, random_uuid).uuid4,
                  !.calls = @ + 1]
  /\ UNCHANGED <<art, files, driverVars>>

NextStamp == CallGetStamp

SpecStamp == InitStamp /\ [][NextStamp]_vars

\* The text t is the text of the readable file f without the white space
\* around it, and is not empty.
HasValue(f, t) ==
  /\ f.readable
  /\ t # <<>> /\ t[1] # " " /\ t[Len(t)] # " "
  /\ \E i \in 1..Len(f.content) :
       /\ i + Len(t) - 1 <= Len(f.content)
       /\ SubSeq(f.content, i, i + Len(t) - 1) = t
       /\ \A k \in 1..Len(f.content) :
            (k < i \/ k > i + Len(t) - 1) => f.content[k] = " "

\* The file f gives no value: unreadable, empty or white space only.
HasNoValue(f) ==
  f.readable => \A k \in 1..Len(f.content) : f.content[k] = " "

\* C32: the identifier of the stamp is the chassis serial number when
\* there is one, else the product UUID when there is one, else the random
\* UUID, which is generated only when both are missing or empty.
C32_IdentifierPreference ==
  last.call = "GetStamp"
    => LET id == last.ret.identifier
       IN  /\ ~HasNoValue(files.chassis_serial)
                => HasValue(files.chassis_serial, id)
           /\ (HasNoValue(files.chassis_serial)
                 /\ ~HasNoValue(files.product_uuid))
                => HasValue(files.product_uuid, id)
           /\ (HasNoValue(files.chassis_serial)
                 /\ HasNoValue(files.product_uuid))
                => id = last.arg
           /\ last.made = 1
                <=> (HasNoValue(files.chassis_serial)
                       /\ HasNoValue(files.product_uuid))

\* The chassis serial file holds white space only and the product UUID
\* is taken.
C32_Witness ==
  /\ last.call = "GetStamp"
  /\ files.chassis_serial = [readable |-> TRUE, content |-> <<" ">>]
  /\ files.product_uuid = [readable |-> TRUE, content |-> <<"A", " ">>]
  /\ last.ret.identifier = <<"A">>
  /\ last.made = 0

\* ---------------------------------------------------------------------------
\* The directory recipe: the artifacts of the selected directories and
\* their copy commands
\* ---------------------------------------------------------------------------

\* The most directories the user selects in one run of the recipe.
MaxPaths == 2

\* Paths of directories, as sequences of characters: /a, /b and /a/b.
DirectoryPaths ==
  {<<"/", "a">>, <<"/", "b">>, <<"/", "a", "/", "b">>}

\* The lists of directories the loop of GetArtifacts collects: it ends
\* after a directory was given and the user declined to add another.
PathLists == UNION {[1..n -> DirectoryPaths] : n \in 1..MaxPaths}

\* FullPathToName: path.replace(os.path.sep, '_').
FullPathToName(path) ==
  [i \in 1..Len(path) |-> IF path[i] = "/" THEN "_" ELSE path[i]]

\* DirectoryArtifact._TAR_COMMAND as the class defines it.
TarCommand ==
  <<"tar", "-c", "-O", "-p", "--xattrs", "--acls", "--format=posix">>

\* DirectoryArtifact.__init__: the name and the remote path,
\* 'Directories/{name}.tar' with '.gz' appended when compressing, as the
\* sequence of their parts.
NewDirectoryArtifact(path, compress) ==
  [kind |-> "Directory", name |-> FullPathToName(path), path |-> path,
   compress |-> compress, copy_command |-> "None",
   remote_path |-> <<"Directories", FullPathToName(path), ".tar">>
                     \o (IF compress THEN <<".gz">> ELSE <<>>)]

\* ProcessOutputArtifact.__init__ for the timeline of a directory.
NewTimelineArtifact(directory, remote_path) ==
  [kind |-> "ProcessOutput", name |-> remote_path[2] \o <<remote_path[3]>>,
   path |-> directory, compress |-> FALSE, copy_command |-> "None",
   remote_path |-> remote_path]

\* The loop of DirectoryRecipe.GetArtifacts over path_list: for each
\* directory the timeline, then the archive.  The remote path of the
\* timeline is built from `path`, the variable of the selection loop, which
\* holds the last directory selected, and on Linux from 'Directores/'.
DirectoryRecipeGetArtifacts(plat, compress, path_list) ==
  LET path == path_list[Len(path_list)]
      timeline(directory) ==
        NewTimelineArtifact(
          directory,
          <<IF plat = "darwin" THEN "Directories" ELSE "Directores",
            FullPathToName(path), ".timeline">>)
  IN  [k \in 1..(2 * Len(path_list)) |->
         IF k % 2 = 1 THEN timeline(path_list[(k + 1) \div 2])
         ELSE NewDirectoryArtifact(path_list[k \div 2], compress)]

\* _GenerateTarCopyCommand: `command` is the class's list itself, so the
\* appends change _TAR_COMMAND for every artifact.
GenerateTarCopyCommand(tar_command, a) ==
  tar_command \o (IF a.compress THEN <<"-z">> ELSE <<>>) \o <<a.path>>

\* DirectoryArtifact._TAR_COMMAND, the list all the artifacts of the
\* process share, is kept in the variable files.
TAR_COMMAND == files

\* A process that has imported the module: no artifact exists yet.
InitDirectory ==
  /\ art = NoArtifact
  /\ last = NoCall
  /\ files = TarCommand
  /\ options = [acquire |-> <<"directory">>, disable_dcfldd |-> FALSE]
  /\ platform \in {"linux", "darwin"}
  /\ uploader = NewUploader("LocalCopier", 1)
  /\ dest = <<>>
  /\ log = NoLog
  /\ pc = "directory"
  /\ recipe_idx = 0
  /\ artifacts = <<>>
  /\ art_idx = 0
  /\ errors = <<>>
  /\ cwd = OriginDir
  /\ recipe = NoRecipe
  /\ dirs = {}
  /\ message = "none"
  /\ exit_status = 0
  /\ faults = 0

\* DirectoryRecipe('directory', options).GetArtifacts(), the user
\* selecting path_list; options.compress is the caller's choice.
CallDirectoryGetArtifacts ==
  /\ last.calls < MaxCalls
  /\ \E path_list \in PathLists, compress \in BOOLEAN :
       /\ artifacts' = DirectoryRecipeGetArtifacts(platform, compress, path_list)
       /\ last' = [last EXCEPT !.call = "GetArtifacts", !.exc = "none",
                               !.arg = path_list, !.args = <<compress>>,
                               !.calls = @ + 1]
  /\ UNCHANGED <<art, files, options, platform, uploader, dest, log, pc,
                 recipe_idx, art_idx, errors, cwd, recipe, dirs, message,
                 exit_status, faults>>

\* _GenerateCopyCommand() on one of the archives, as the first _GetStream
\* of the artifact calls it.
CallGenerateCopyCommand ==
  /\ last.calls < MaxCalls
  /\ \E i \in 1..Len(artifacts) :
       /\ artifacts[i].kind = "Directory"
       /\ artifacts[i].copy_command = "None"
       /\ files' = GenerateTarCopyCommand(TAR_COMMAND, artifacts[i])
       /\ artifacts' = [artifacts EXCEPT ![i].copy_command = "_TAR_COMMAND"]
       /\ art_idx' = i
       /\ last' = [last EXCEPT !.call = "_GenerateCopyCommand",
                               !.exc = "none", !.calls = @ + 1]
  /\ UNCHANGED <<art, options, platform, uploader, dest, log, pc,
                 recipe_idx, errors, cwd, recipe, dirs, message,
                 exit_status, faults>>

NextDirectory == CallDirectoryGetArtifacts \/ CallGenerateCopyCommand

SpecDirectory == InitDirectory /\ [][NextDirectory]_vars

\* C33: GetArtifacts returns, for each selected directory D, a timeline at
\* Directories/{FullPathToName(D)}.timeline and an archive at
\* Directories/{FullPathToName(D)}.tar, with .gz appended when compressing.
C33_DirectoryRemotePaths ==
  last.call = "GetArtifacts"
    => \A i \in 1..Len(last.arg) :
         LET name == FullPathToName(last.arg[i])
         IN  /\ artifacts[2 * i - 1].remote_path
                  = <<"Directories", name, ".timeline">>
             /\ artifacts[2 * i].remote_path
                  = <<"Directories", name, ".tar">>
                      \o (IF last.args[1] THEN <<".gz">> ELSE <<>>)

\* C34: the copy command generated for an archive is the base tar command,
\* then -z if and only if the archive is compressed, then its own path.
C34_CopyCommandIsOwn ==
  last.call = "_GenerateCopyCommand"
    => TAR_COMMAND
         = <<"tar", "-c", "-O", "-p", "--xattrs", "--acls", "--format=posix">>
             \o (IF artifacts[art_idx].compress THEN <<"-z">> ELSE <<>>)
             \o <<artifacts[art_idx].path>>

\* C35: DiskRecipe.GetArtifacts always returns: whatever goes wrong while
\* one disk is collected, the list it returns holds the inventory and the
\* images of the devices that are disks of a positive size and were to be
\* collected.
C35_AsManyArtifactsAsPossible ==
  last.call = "GetArtifacts"
    => /\ last.exc = "none"
       /\ artifacts # <<>>
       /\ artifacts[1].role = "inventory"
       /\ (~options.select_disks /\ options.disk = {})
            => \A i \in 1..Len(last.arg) :
                 LET d == last.arg[i]
                 IN  (d.type = "disk" /\ d.size > 0 /\ ProbablyADisk(platform, d))
                       => \E k \in 1..Len(artifacts) :
                            /\ artifacts[k].kind = "Disk"
                            /\ artifacts[k].size = d.size

\* C36: with dcfldd disabled, CloseStream on a disk whose stream was
\* opened by OpenStream and read to its end does not raise.
C36_RawDiskClosesCleanly ==
  (/\ art.kind = "Disk" /\ ~art.use_dcfldd
   /\ last.call = "CloseStream"
   /\ last.made > 0
   /\ art.pos = art.len)
    => last.exc = "none"

\* C37: when UploadArtifact has returned or raised for an artifact whose
\* stream it opened, the artifact's child process is no longer running.
C37_NoProcessLeftRunning ==
  (last.call = "UploadArtifact" /\ log.up.opened)
    => art.proc # "running"

\* ---------------------------------------------------------------------------
\* A streaming artifact and its child process, connected by two pipes
\* ---------------------------------------------------------------------------

\* The most writes the child process makes before it exits.
MaxWrites == 3

\* The number of chunks a pipe holds before a write to it blocks.
PipeCapacity == 1

\* What the child does: a sequence of writes of one chunk, each to its
\* stdout ("out": the image or the archive) or to its stderr ("err":
\* dcfldd's status output, tar's warnings); then it exits.
ChildPrograms == UNION {[1..n -> {"out", "err"}] : n \in 0..MaxWrites}

\* The artifact before OpenStream: the pipes do not exist yet.
NewStreamingArtifact(kind, program) ==
  [kind |-> kind, proc |-> "None", program |-> program,
   stdout |-> 0, stderr |-> 0, pos |-> 0]

\* UploadArtifact is about to open the stream of a disk read by dcfldd or
\* of a directory; the stamp was uploaded before.
InitPipe ==
  /\ art \in {NewStreamingArtifact(k, p) :
                k \in {"Disk", "Directory"}, p \in ChildPrograms}
  /\ last = NoCall
  /\ files = {}
  /\ options = [acquire |-> <<>>, disable_dcfldd |-> FALSE]
  /\ platform = "linux"
  /\ uploader = [NewUploader("LocalCopier", 1) EXCEPT !.stamp_uploaded = TRUE]
  /\ dest = <<>>
  /\ log = NoLog
  /\ pc = "OpenStream"
  /\ recipe_idx = 0
  /\ artifacts = <<>>
  /\ art_idx = 0
  /\ errors = <<>>
  /\ cwd = OriginDir
  /\ recipe = NoRecipe
  /\ dirs = {}
  /\ message = "none"
  /\ exit_status = 0
  /\ faults = 0

pipeVars ==
  <<last, files, options, platform, uploader, dest, log, recipe_idx,
    artifacts, art_idx, errors, cwd, recipe, dirs, message, exit_status,
    faults>>

\* _GetStream of DiskArtifact and DirectoryArtifact: subprocess.Popen with
\* stdout=PIPE and stderr=PIPE; the stream is the child's stdout.
PopenChild ==
  /\ pc = "OpenStream"
  /\ art' = [art EXCEPT !.proc = "running"]
  /\ pc' = "read"
  /\ UNCHANGED pipeVars

\* The child's next write: it blocks while the pipe is full.
ChildWrite ==
  /\ art.proc = "running"
  /\ art.program # <<>>
  /\ \/ /\ Head(art.program) = "out"
        /\ art.stdout < PipeCapacity
        /\ art' = [art EXCEPT !.stdout = @ + 1, !.program = Tail(@)]
     \/ /\ Head(art.program) = "err"
        /\ art.stderr < PipeCapacity
        /\ art' = [art EXCEPT !.stderr = @ + 1, !.program = Tail(@)]
  /\ UNCHANGED <<pc, pipeVars>>

\* The child has written everything: it exits, which closes its ends of
\* the pipes.
ChildExit ==
  /\ art.proc = "running"
  /\ art.program = <<>>
  /\ art' = [art EXCEPT !.proc = "exited"]
  /\ UNCHANGED <<pc, pipeVars>>

\* The loop of LocalCopier._UploadStream: stream.read(buffer_length)
\* returns what the pipe holds, blocks while the pipe is empty and open,
\* and returns b'' at end of file, which ends the loop.  Nothing reads the
\* child's stderr here.
UploadStreamRead ==
  /\ pc = "read"
  /\ \/ /\ art.stdout > 0
        /\ art' = [art EXCEPT !.stdout = 0, !.pos = @ + art.stdout]
        /\ pc' = pc
     \/ /\ art.stdout = 0
        /\ art.proc = "exited"
        /\ art' = art
        /\ pc' = "CloseStream"
  /\ UNCHANGED pipeVars

\* CloseStream after the end of file: stdout.read(1) returns b'', wait()
\* returns because the child has exited, stderr.read() empties the pipe;
\* the exit code decides whether it raises.
PipeCloseStream ==
  /\ pc = "CloseStream"
  /\ \E code \in ExitCodes :
       LET isError == IF art.kind = "Disk" THEN DiskCodeIsError
                      ELSE DirectoryCodeIsError
       IN  /\ art' = [art EXCEPT !.stderr = 0]
           /\ pc' = IF isError[code] THEN "raised" ELSE "returned"
  /\ UNCHANGED pipeVars

NextPipe ==
  PopenChild \/ ChildWrite \/ ChildExit \/ UploadStreamRead \/ PipeCloseStream

\* The operating system schedules the child and the uploader goes on
\* whenever its call can return.
SpecPipe ==
  /\ InitPipe
  /\ [][NextPipe]_vars
  /\ WF_vars(PopenChild)
  /\ WF_vars(ChildWrite)
  /\ WF_vars(ChildExit)
  /\ WF_vars(UploadStreamRead)
  /\ WF_vars(PipeCloseStream)

\* C38: the upload of a streaming artifact ends, by a return or by an
\* exception, whatever the child writes to its stderr.
C38_UploadNeverDeadlocks == <>(pc \in {"returned", "raised"})

\* ---------------------------------------------------------------------------
\* The mounted flag of the Linux disks
\* ---------------------------------------------------------------------------

\* The depth of the device trees of lsblk below a disk (partitions, then
\* the volumes on them) and the most children of a device.
MaxDepth == 2

MaxChildren == 2

\* lsblk's mountpoint of a device: null or a path.
Mountpoints == {"None", "/mnt"}

\* The devices lsblk can report with descendants down to depth d; a device
\* without descendants has no 'children' key.
RECURSIVE LsblkTrees(_)
LsblkTrees(d) ==
  LET leaves == [mountpoint : Mountpoints, has_children : {FALSE},
                 children : {<<>>}]
  IN  IF d = 0 THEN leaves
      ELSE leaves
             \cup [mountpoint : Mountpoints, has_children : {TRUE},
                   children : UNION {[1..n -> LsblkTrees(d - 1)] :
                                       n \in 1..MaxChildren}]

\* DiskRecipe._IsDiskMounted.
RECURSIVE IsDiskMounted(_)
IsDiskMounted(lsblk_device_dict) ==
  IF lsblk_device_dict.mountpoint # "None" THEN TRUE
  ELSE IF lsblk_device_dict.has_children
  THEN \E i \in 1..Len(lsblk_device_dict.children) :
         IsDiskMounted(lsblk_device_dict.children[i])
  ELSE FALSE

\* DiskArtifact.__init__, for a path under /dev and a positive size.
DiskArtifactInit(name, size, mounted, use_dcfldd) ==
  [kind |-> "Disk", name |-> name, size |-> size, mounted |-> mounted,
   use_dcfldd |-> use_dcfldd]

\* LinuxDiskArtifact.__init__: super().__init__(path, size,
\* use_dcfldd=use_dcfldd) does not pass mounted on, so DiskArtifact's
\* default, False, is used.
LinuxDiskArtifactInit(name, size, mounted, use_dcfldd) ==
  DiskArtifactInit(name, size, FALSE, use_dcfldd)

\* DiskRecipe._ListAllDisksLinux on the block device lsblk reports.
ListAllDisksLinux(blockdevice, use_dcfldd) ==
  IF blockdevice.type = "disk"
  THEN <<LinuxDiskArtifactInit(blockdevice.name, blockdevice.size,
                               IsDiskMounted(blockdevice.tree), use_dcfldd)>>
  ELSE <<>>

\* A Linux machine; the recipe has listed nothing yet.
InitMount ==
  /\ art = NoArtifact
  /\ last = NoCall
  /\ files = {}
  /\ options = [acquire |-> <<"disk">>, disable_dcfldd |-> FALSE]
  /\ platform = "linux"
  /\ uploader = NewUploader("LocalCopier", 1)
  /\ dest = <<>>
  /\ log = NoLog
  /\ pc = "mount"
  /\ recipe_idx = 0
  /\ artifacts = <<>>
  /\ art_idx = 0
  /\ errors = <<>>
  /\ cwd = OriginDir
  /\ recipe = NoRecipe
  /\ dirs = {}
  /\ message = "none"
  /\ exit_status = 0
  /\ faults = 0

\* recipe._ListAllDisksLinux() on a machine with one block device, whose
\* tree of partitions and volumes is the environment's choice.
CallListAllDisksLinux ==
  /\ pc = "mount"
  /\ last.call = "new"
  /\ \E tree \in LsblkTrees(MaxDepth), type \in {"disk", "loop"} :
       LET blockdevice == [name |-> "sda", type |-> type, size |-> 1,
                           tree |-> tree]
       IN  /\ artifacts' = ListAllDisksLinux(blockdevice, TRUE)
           /\ last' = [last EXCEPT !.call = "_ListAllDisksLinux",
                                   !.exc = "none", !.arg = blockdevice,
                                   !.calls = @ + 1]
  /\ UNCHANGED <<art, files, options, platform, uploader, dest, log, pc,
                 recipe_idx, art_idx, errors, cwd, recipe, dirs, message,
                 exit_status, faults>>

NextMount == CallListAllDisksLinux

SpecMount == InitMount /\ [][NextMount]_vars

\* The mountpoints of a device and of its descendants at any depth.
RECURSIVE MountpointsOf(_)
MountpointsOf(tree) ==
  {tree.mountpoint}
    \cup UNION {MountpointsOf(tree.children[i]) :
                  i \in 1..Len(tree.children)}

\* C39: the mounted flag of every disk _ListAllDisksLinux builds is true
\* exactly when the device or one of its descendants has a mountpoint.
C39_MountedFlag ==
  last.call = "_ListAllDisksLinux"
    => \A i \in 1..Len(artifacts) :
         artifacts[i].mounted <=> MountpointsOf(last.arg.tree) # {"None"}

\* C40: UploadArtifact called without a progress callback does not fail
\* for the lack of it: it never raises the TypeError of calling None.
C40_CallbackIsOptional ==
  (last.call = "UploadArtifact" /\ last.arg = FALSE)
    => last.exc # "TypeError"

====
